---- MODULE Spec2Model ----
(***************************************************************************)
(* Reminder engine of keepclos: the rule predicates (rules.ts), the        *)
(* per-contact evaluation with its 24-hour cooldown and the periodic       *)
(* ReminderScheduler (scheduler.ts).                                       *)
(*                                                                         *)
(* A Date is the number of whole hours since 1 January 00:00 (local time)  *)
(* of a non-leap year.  An optional property of a TypeScript object is a   *)
(* record field that is present or absent (Has).                           *)
(***************************************************************************)
EXTENDS Integers, Sequences, FiniteSets, TLC

\* ------------------------------------------------------------------ bounds
\* Hours the clock may run past StartTime.
MaxElapsed == 26
\* Host timers that can be armed at once (setInterval handles).
MaxTimers == 2
\* Evaluation cycles whose callback promise is pending at once.
MaxInflight == 2

\* ------------------------------------------------------- program constants
\* decay.ts daysBetween: msPerDay = 24 * 60 * 60 * 1000, here in hours.
HoursPerDay == 24
\* scheduler.ts isDismissedOrOld: hoursOld default.
DefaultHoursOld == 24
\* rules.ts defaults of the rule configs.
DefaultInactivityDays == 30
DefaultRecurringDays == 14
DefaultScoreThreshold == 30

\* ---------------------------------------------------------------- helpers
Has(r, f) == f \in DOMAIN r

\* x.f ?? d
OrDefault(r, f, d) == IF Has(r, f) THEN r[f] ELSE d

\* Date.getMonth() (0-based) and Date.getDate() of a local time.
CumDays == <<0, 31, 59, 90, 120, 151, 181, 212, 243, 273, 304, 334, 365>>

DayOfYear(t) == (t \div HoursPerDay) % CumDays[13]

getMonth(t) == CHOOSE m \in 0..11 : CumDays[m + 1] <= DayOfYear(t) /\ DayOfYear(t) < CumDays[m + 2]

getDate(t) == DayOfYear(t) - CumDays[getMonth(t) + 1] + 1

\* Number.NaN, and the time value of the Invalid Date: no month or day of
\* a Date equals it.
NaN == -1

HoursPerYear == 365 * HoursPerDay

getFullYear(t) == t \div HoursPerYear

getHours(t) == t % HoursPerDay

\* MakeDate(MakeDay(year, month, date), time of day): month and date may lie
\* outside the calendar and carry over.
MakeDate(year, month, date, hours) ==
  (((year + (month \div 12)) * 365 + CumDays[(month % 12) + 1] + date - 1) * HoursPerDay) + hours

\* Date.prototype.setMonth, setDate and setFullYear; NaN is the Invalid Date,
\* which stays invalid.
setMonth(t, month) ==
  IF t = NaN \/ month = NaN THEN NaN
  ELSE MakeDate(getFullYear(t), month, getDate(t), getHours(t))

setDate(t, date) ==
  IF t = NaN \/ date = NaN THEN NaN
  ELSE MakeDate(getFullYear(t), getMonth(t), date, getHours(t))

setFullYear(t, year) ==
  IF t = NaN THEN NaN ELSE MakeDate(year, getMonth(t), getDate(t), getHours(t))

\* daysBetween(from, to) * 24: the elapsed time as a number of hours; the real
\* day count is this number divided by HoursPerDay.
hoursBetween(from, to) == to - from

\* daysSince(date) >= days, with `now` the value of new Date().
daysSinceAtLeast(date, days, now) == hoursBetween(date, now) >= days * HoursPerDay

\* ------------------------------------------------ strings as char sequences
Digits == <<"0", "1", "2", "3", "4", "5", "6", "7", "8", "9">>

IsDigit(ch) == \E i \in 1..10 : Digits[i] = ch

DigitValue(ch) == (CHOOSE i \in 1..10 : Digits[i] = ch) - 1

\* String.prototype.split(sep) for a one-character separator.
RECURSIVE split(_, _)
split(s, sep) ==
  IF \A i \in 1..Len(s) : s[i] # sep THEN <<s>>
  ELSE LET k == CHOOSE i \in 1..Len(s) : s[i] = sep /\ \A j \in 1..(i - 1) : s[j] # sep
       IN <<SubSeq(s, 1, k - 1)>> \o split(SubSeq(s, k + 1, Len(s)), sep)

RECURSIVE DecimalValue(_)
DecimalValue(s) ==
  IF s = <<>> THEN 0 ELSE 10 * DecimalValue(SubSeq(s, 1, Len(s) - 1)) + DigitValue(s[Len(s)])

\* String.prototype.trim for the space character.
RECURSIVE trim(_)
trim(s) ==
  IF s = <<>> THEN s
  ELSE IF s[1] = " " THEN trim(Tail(s))
  ELSE IF s[Len(s)] = " " THEN trim(SubSeq(s, 1, Len(s) - 1))
  ELSE s

\* Number(s) for a string of digits, spaces, "-", ":" and letters other than
\* e and x: spaces around are dropped, "" is 0, a string holding anything
\* else than digits is NaN.
StringToNumber(t) ==
  IF t = <<>> THEN 0
  ELSE IF \A i \in 1..Len(t) : IsDigit(t[i]) THEN DecimalValue(t) ELSE NaN

Number(s) == StringToNumber(trim(s))

\* The longest prefix of digits.
RECURSIVE digitPrefix(_)
digitPrefix(s) ==
  IF s = <<>> \/ ~IsDigit(s[1]) THEN <<>> ELSE <<s[1]>> \o digitPrefix(Tail(s))

\* parseInt(s, 10) for such a string that carries no sign: the digits after
\* the leading spaces, NaN when there are none.
digitsToInt(digits) == IF digits = <<>> THEN NaN ELSE DecimalValue(digits)

parseInt(s) == digitsToInt(digitPrefix(trim(s)))

\* String.prototype.includes
includes(s, sub) == \E i \in 1..(Len(s) - Len(sub) + 1) : SubSeq(s, i, i + Len(sub) - 1) = sub

\* ------------------------------------------------------------------ rules
\* A variant of evaluateInactivityRule with a strict comparison.
evaluateInactivityRule_Strict(contact, rule, interactions, now) ==
  LET inactivityDays == OrDefault(rule.config, "inactivityDays", DefaultInactivityDays)
  IN IF ~Has(contact, "lastContactedAt") THEN TRUE
     ELSE hoursBetween(contact.lastContactedAt, now) > inactivityDays * HoursPerDay

evaluateInactivityRule(contact, rule, interactions, now) ==
  LET inactivityDays == OrDefault(rule.config, "inactivityDays", DefaultInactivityDays)
  IN IF ~Has(contact, "lastContactedAt") THEN TRUE
     ELSE daysSinceAtLeast(contact.lastContactedAt, inactivityDays, now)

\* interactions.reduce(...): the timestamp of the latest interaction.
mostRecentTimestamp(interactions) ==
  CHOOSE t \in {interactions[i].timestamp : i \in 1..Len(interactions)} :
    \A i \in 1..Len(interactions) : interactions[i].timestamp <= t

\* A variant of evaluateRecurringRule that takes the last interaction of the list.
evaluateRecurringRule_LastOfList(contact, rule, interactions, now) ==
  LET recurringDays == OrDefault(rule.config, "recurringDays", DefaultRecurringDays)
  IN IF ~Has(contact, "lastContactedAt") THEN TRUE
     ELSE LET referenceDate == IF Len(interactions) > 0
                               THEN interactions[Len(interactions)].timestamp
                               ELSE contact.lastContactedAt
          IN daysSinceAtLeast(referenceDate, recurringDays, now)

evaluateRecurringRule(contact, rule, interactions, now) ==
  LET recurringDays == OrDefault(rule.config, "recurringDays", DefaultRecurringDays)
  IN IF ~Has(contact, "lastContactedAt") THEN TRUE
     ELSE LET referenceDate == IF Len(interactions) > 0
                               THEN mostRecentTimestamp(interactions)
                               ELSE contact.lastContactedAt
          IN daysSinceAtLeast(referenceDate, recurringDays, now)

\* A variant of evaluateDateRule that does not cut the pattern at the space.
evaluateDateRule_WholePattern(contact, rule, now) ==
  IF ~Has(rule.config, "datePattern") \/ rule.config.datePattern = <<>> THEN FALSE
  ELSE LET nums == split(rule.config.datePattern, "-")
       IN /\ Len(nums) >= 2
          /\ getMonth(now) + 1 = Number(nums[1])
          /\ getDate(now) = Number(nums[2])

evaluateDateRule(contact, rule, now) ==
  IF ~Has(rule.config, "datePattern") \/ rule.config.datePattern = <<>> THEN FALSE
  ELSE LET datePart == split(rule.config.datePattern, " ")[1]
           nums == split(datePart, "-")
       IN /\ Len(nums) >= 2
          /\ getMonth(now) + 1 = Number(nums[1])
          /\ getDate(now) = Number(nums[2])

\* A variant of evaluateDecayRule with an inclusive comparison.
evaluateDecayRule_Inclusive(contact, rule, currentScore) ==
  currentScore <= OrDefault(rule.config, "scoreThreshold", DefaultScoreThreshold)

evaluateDecayRule(contact, rule, currentScore) ==
  currentScore < OrDefault(rule.config, "scoreThreshold", DefaultScoreThreshold)

\* The tag filter is in force: rule.config.tags is present and not empty.
HasTagFilter(rule) == Has(rule.config, "tags") /\ Len(rule.config.tags) > 0

ruleAppliesToContact(contact, rule) ==
  IF ~HasTagFilter(rule) THEN TRUE
  ELSE \E i \in 1..Len(rule.config.tags) : rule.config.tags[i] \in contact.tags

\* evaluateRule raises a TypeError: contact.tags.includes on a contact record
\* that carries no tags array, reached only under a tag filter.
evaluateRuleThrows(contact, rule) == HasTagFilter(rule) /\ ~Has(contact, "tags")

\* A variant of evaluateRule without the score gate.
evaluateRule_NoScoreGate(contact, rule, interactions, relationshipScore, now) ==
  IF ~ruleAppliesToContact(contact, rule) THEN FALSE
  ELSE CASE rule.type = "inactivity" -> evaluateInactivityRule(contact, rule, interactions, now)
         [] rule.type = "recurring" -> evaluateRecurringRule(contact, rule, interactions, now)
         [] rule.type = "date" -> evaluateDateRule(contact, rule, now)
         [] rule.type = "decay" -> evaluateDecayRule(contact, rule, relationshipScore)
         [] OTHER -> FALSE

evaluateRule(contact, rule, interactions, relationshipScore, now) ==
  IF ~ruleAppliesToContact(contact, rule) THEN FALSE
  ELSE IF /\ Has(rule.config, "minRelationshipScore")
          /\ relationshipScore < rule.config.minRelationshipScore THEN FALSE
  ELSE CASE rule.type = "inactivity" -> evaluateInactivityRule(contact, rule, interactions, now)
         [] rule.type = "recurring" -> evaluateRecurringRule(contact, rule, interactions, now)
         [] rule.type = "date" -> evaluateDateRule(contact, rule, now)
         [] rule.type = "decay" -> evaluateDecayRule(contact, rule, relationshipScore)
         [] OTHER -> FALSE

\* The word looked for by generateReminderMessage.
Birthday == <<"b", "i", "r", "t", "h", "d", "a", "y">>

\* A template literal: its literal strings and the values put between them.
generateReminderMessage(contact, rule) ==
  CASE rule.type = "inactivity" ->
         [strings |-> <<"Time to reach out to ", "! You haven't connected in ", " days.">>,
          values |-> <<contact.name, OrDefault(rule.config, "inactivityDays", DefaultInactivityDays)>>]
    [] rule.type = "recurring" ->
         [strings |-> <<"Regular check-in with ", " (every ", " days)">>,
          values |-> <<contact.name, OrDefault(rule.config, "recurringDays", DefaultRecurringDays)>>]
    [] rule.type = "date" ->
         IF \/ Has(rule.config, "datePattern") /\ includes(rule.config.datePattern, Birthday)
            \/ includes(contact.notes, Birthday)
         THEN [strings |-> <<"Birthday reminder: ", "!">>, values |-> <<contact.name>>]
         ELSE [strings |-> <<"Scheduled reminder: ", "">>, values |-> <<contact.name>>]
    [] rule.type = "decay" ->
         [strings |-> <<"Your relationship with ", " needs attention (score dropping below ", ")">>,
          values |-> <<contact.name, OrDefault(rule.config, "scoreThreshold", DefaultScoreThreshold)>>]
    [] OTHER -> [strings |-> <<"Reminder: reach out to ", "">>, values |-> <<contact.name>>]

isValidDatePattern(pattern) ==
  LET datePart == split(pattern, " ")[1]
      dateParts == split(datePart, "-")
  IN IF Len(dateParts) # 2 THEN FALSE
     ELSE LET month == parseInt(dateParts[1])
              day == parseInt(dateParts[2])
          IN month >= 1 /\ month <= 12 /\ day >= 1 /\ day <= 31

\* A variant of the validation that takes a scoreThreshold of 0 for a missing one.
createRuleThrows_FalsyThreshold(type, config) ==
  CASE type = "inactivity" -> ~Has(config, "inactivityDays") \/ config.inactivityDays <= 0
    [] type = "recurring" -> ~Has(config, "recurringDays") \/ config.recurringDays <= 0
    [] type = "date" ->
         \/ ~Has(config, "datePattern")
         \/ config.datePattern = <<>>
         \/ ~isValidDatePattern(config.datePattern)
    [] type = "decay" ->
         ~Has(config, "scoreThreshold") \/ config.scoreThreshold <= 0 \/ config.scoreThreshold > 100
    [] OTHER -> FALSE

\* The validation of createRule throws.
createRuleThrows(type, config) ==
  CASE type = "inactivity" -> ~Has(config, "inactivityDays") \/ config.inactivityDays <= 0
    [] type = "recurring" -> ~Has(config, "recurringDays") \/ config.recurringDays <= 0
    [] type = "date" ->
         \/ ~Has(config, "datePattern")
         \/ config.datePattern = <<>>
         \/ ~isValidDatePattern(config.datePattern)
    [] type = "decay" ->
         ~Has(config, "scoreThreshold") \/ config.scoreThreshold < 0 \/ config.scoreThreshold > 100
    [] OTHER -> FALSE

\* createRule: threw is set when the validation throws, and then no rule is
\* returned; the id is generated.
createRule(type, name, config) ==
  IF createRuleThrows(type, config) THEN [threw |-> TRUE]
  ELSE [threw |-> FALSE,
        rule |-> [id |-> "generated", type |-> type, name |-> name, description |-> "",
                  enabled |-> TRUE, config |-> config]]

\* ------------------------------------------------ numbers with fractions
\* A JavaScript number that need not be whole is the fraction n/d in lowest
\* terms with d >= 0; d = 0 stands for Infinity (n = 1), -Infinity (n = -1)
\* and NaN (n = 0).  Rounding to 64 bits and the sign of zero are left out.
RECURSIVE gcd(_, _)
gcd(a, b) == IF b = 0 THEN a ELSE gcd(b, a % b)

reduced(n, d, g) == [n |-> n \div g, d |-> d \div g]

Frac(n, d) ==
  IF d = 0 THEN [n |-> IF n > 0 THEN 1 ELSE IF n < 0 THEN -1 ELSE 0, d |-> 0]
  ELSE IF d < 0 THEN reduced(-n, -d, gcd(IF n < 0 THEN -n ELSE n, -d))
  ELSE reduced(n, d, gcd(IF n < 0 THEN -n ELSE n, d))

Whole(k) == [n |-> k, d |-> 1]

Zero == Whole(0)

Hundred == Whole(100)

NotANumber == [n |-> 0, d |-> 0]

isNaN(x) == x.n = 0 /\ x.d = 0

\* a + b, a * b, 1 / b, a / b and a < b, a <= b of IEEE 754.
Add(a, b) ==
  IF a.d = 0 /\ b.d = 0 THEN (IF a.n = b.n THEN a ELSE NotANumber)
  ELSE Frac(a.n * b.d + b.n * a.d, a.d * b.d)

Mul(a, b) == Frac(a.n * b.n, a.d * b.d)

Inverse(b) ==
  IF b.d = 0 THEN (IF b.n = 0 THEN NotANumber ELSE Zero)
  ELSE IF b.n = 0 THEN [n |-> 1, d |-> 0]
  ELSE Frac(b.d, b.n)

Div(a, b) == Mul(a, Inverse(b))

Less(a, b) ==
  IF isNaN(a) \/ isNaN(b) THEN FALSE
  ELSE IF a.d = 0 /\ b.d = 0 THEN a.n < b.n
  ELSE a.n * b.d < b.n * a.d

LessEq(a, b) == ~isNaN(a) /\ ~isNaN(b) /\ ~Less(b, a)

Math_max(a, b) ==
  IF isNaN(a) \/ isNaN(b) THEN NotANumber ELSE IF Less(a, b) THEN b ELSE a

Math_min(a, b) ==
  IF isNaN(a) \/ isNaN(b) THEN NotANumber ELSE IF Less(b, a) THEN b ELSE a

RECURSIVE intPow(_, _)
intPow(b, k) == IF k = 0 THEN Whole(1) ELSE Mul(b, intPow(b, k - 1))

\* The square root of a fraction of two squares.
rootOf(x) ==
  [n |-> CHOOSE r \in 0..x.n : r * r = x.n, d |-> CHOOSE r \in 0..x.d : r * r = x.d]

\* Math.pow(base, exponent) where the power is a fraction: a whole exponent,
\* or a half-integer exponent of a base whose power is a square.  Other
\* powers are irrational and have no value here; the inputs avoid them.
Math_pow(base, exponent) ==
  CASE exponent.d = 1 /\ exponent.n >= 0 -> intPow(base, exponent.n)
    [] exponent.d = 1 /\ exponent.n < 0 -> intPow(Inverse(base), -exponent.n)
    [] exponent.d = 2 /\ exponent.n > 0 -> rootOf(intPow(base, exponent.n))
    [] exponent.d = 2 /\ exponent.n < 0 -> rootOf(intPow(Inverse(base), -exponent.n))

\* ------------------------------------------------------------------ decay
\* The outcome of a call: the value returned, or the Error thrown.
Returned(value) == [threw |-> FALSE, value |-> value]

Thrown(message) == [threw |-> TRUE, message |-> message]

\* Math.max(0, Math.min(100, score))
clamp(score) == Math_max(Zero, Math_min(Hundred, score))

exponentialDecay(daysSince, halfLife) ==
  IF Less(daysSince, Zero) THEN Returned(Hundred)
  ELSE IF daysSince = Zero THEN Returned(Hundred)
  ELSE IF LessEq(halfLife, Zero) THEN Thrown("halfLife must be positive")
  ELSE Returned(clamp(Mul(Hundred, Math_pow(Frac(1, 2), Div(daysSince, halfLife)))))

linearDecay(daysSince, maxAge) ==
  IF Less(daysSince, Zero) THEN Returned(Hundred)
  ELSE IF LessEq(maxAge, Zero) THEN Thrown("maxAge must be positive")
  ELSE Returned(clamp(Mul(Hundred, Add(Whole(1), Mul(Whole(-1), Div(daysSince, maxAge))))))

powerLawDecay(daysSince, curve) ==
  IF Less(daysSince, Zero) THEN Returned(Hundred)
  ELSE IF LessEq(curve, Zero) THEN Thrown("curve must be positive")
  ELSE Returned(clamp(Mul(Hundred, Math_pow(Add(Whole(1), daysSince), Mul(Whole(-1), curve)))))

DefaultHalfLife == 30
DefaultMaxAge == 365

applyDecay(daysSince, config) ==
  CASE config.type = "exponential" ->
         exponentialDecay(daysSince, OrDefault(config, "halfLife", Whole(DefaultHalfLife)))
    [] config.type = "linear" ->
         linearDecay(daysSince, OrDefault(config, "maxAge", Whole(DefaultMaxAge)))
    [] config.type = "custom" ->
         powerLawDecay(daysSince, OrDefault(config, "curve", Frac(1, 2)))
    [] OTHER -> Thrown("Unknown decay type")

\* daysBetween(from, to): the days, with their fraction, from one date to
\* the other; dates count hours.
daysBetween(from, to) == Frac(to - from, HoursPerDay)

\* daysSince(date) when new Date() is now.
daysSince(date, now) == daysBetween(date, now)

\* ----------------------------------------------------------------- scorer
\* DEFAULT_CONFIG of the scorer.
DEFAULT_SCORER_CONFIG ==
  [recencyWeight |-> Frac(4, 10), frequencyWeight |-> Frac(3, 10),
   engagementWeight |-> Frac(3, 10), halfLife |-> Whole(DefaultHalfLife), frequencyWindow |-> 90]

\* { ...DEFAULT_CONFIG, ...config }
finalConfigOf(config) ==
  [f \in DOMAIN DEFAULT_SCORER_CONFIG |-> OrDefault(config, f, DEFAULT_SCORER_CONFIG[f])]

calculateRecencyScore(contact, halfLife, now) ==
  IF ~Has(contact, "lastContactedAt") THEN Returned(Zero)
  ELSE exponentialDecay(daysSince(contact.lastContactedAt, now), halfLife)

calculateFrequencyScore(interactions, windowDays) ==
  IF Len(interactions) = 0 THEN Zero
  ELSE Math_max(Zero, Math_min(Hundred, Mul(Div(Whole(Len(interactions)), windowDays), Whole(1000))))

\* interactions.reduce((sum, i) => sum + i.quality, 0)
RECURSIVE totalQuality(_, _)
totalQuality(interactions, i) ==
  IF i > Len(interactions) THEN Zero
  ELSE Add(interactions[i].quality, totalQuality(interactions, i + 1))

calculateEngagementScore(interactions) ==
  IF Len(interactions) = 0 THEN Zero
  ELSE Math_min(Hundred, Div(totalQuality(interactions, 1), Whole(Len(interactions))))

\* The weighted sum of combineScores for the sum totalWeight of the weights.
weightedSum(recency, frequency, engagement, finalConfig, totalWeight) ==
  Add(Add(Mul(recency, Div(finalConfig.recencyWeight, totalWeight)),
          Mul(frequency, Div(finalConfig.frequencyWeight, totalWeight))),
      Mul(engagement, Div(finalConfig.engagementWeight, totalWeight)))

combineScores(recency, frequency, engagement, config) ==
  Math_min(Hundred, Math_max(Zero,
    weightedSum(recency, frequency, engagement, finalConfigOf(config),
                Add(Add(finalConfigOf(config).recencyWeight, finalConfigOf(config).frequencyWeight),
                    finalConfigOf(config).engagementWeight))))

\* The date n days before now: d = new Date(); d.setDate(d.getDate() - n).
daysAgo(now, n) == setDate(now, getDate(now) - n)

TrendDays == 45

after(interactions, cutoff) == SelectSeq(interactions, LAMBDA i : i.timestamp > cutoff)

upTo(interactions, cutoff) == SelectSeq(interactions, LAMBDA i : i.timestamp <= cutoff)

\* The trend for the numbers of interactions after and up to the cutoff.
trendOfCounts(recentCount, olderCount) ==
  IF olderCount = 0 THEN "improving"
  ELSE IF Less(Frac(12, 10), Frac(recentCount, olderCount)) THEN "improving"
  ELSE IF Less(Frac(recentCount, olderCount), Frac(8, 10)) THEN "declining"
  ELSE "stable"

\* A variant of the trend that counts only the interactions of the default
\* frequency window.
trendOf_WindowOnly(interactions, now) ==
  trendOfCounts(Len(after(interactions, daysAgo(now, TrendDays))),
                Len(upTo(after(interactions, daysAgo(now, DEFAULT_SCORER_CONFIG.frequencyWindow)),
                         daysAgo(now, TrendDays))))

trendOf(interactions, now) ==
  trendOfCounts(Len(after(interactions, daysAgo(now, TrendDays))),
                Len(upTo(interactions, daysAgo(now, TrendDays))))

\* The object calculateRelationshipScore returns once the component scores
\* are known; the Error of exponentialDecay leaves the function.
scoreObject(contact, recencyScore, frequencyScore, engagementScore, finalConfig, trend, now) ==
  IF recencyScore.threw THEN recencyScore
  ELSE Returned([contactId |-> contact.id,
                 overall |-> combineScores(recencyScore.value, frequencyScore, engagementScore,
                                           finalConfig),
                 recency |-> recencyScore.value,
                 frequency |-> frequencyScore,
                 engagement |-> engagementScore,
                 trend |-> trend,
                 lastUpdated |-> now])

calculateRelationshipScore(contact, interactions, config, now) ==
  scoreObject(contact,
              calculateRecencyScore(contact, finalConfigOf(config).halfLife, now),
              calculateFrequencyScore(
                after(interactions, daysAgo(now, finalConfigOf(config).frequencyWindow)),
                Whole(finalConfigOf(config).frequencyWindow)),
              calculateEngagementScore(interactions),
              finalConfigOf(config), trendOf(interactions, now), now)

\* -------------------------------------------------------------- scheduler
\* The key of context.existingReminders: `${contact.id}:${rule.id}`.
recentReminderKey(contactId, ruleId) == contactId \o ":" \o ruleId

\* Variants of isDismissedOrOld: a sent reminder counts as old; the status
\* is not looked at.
isDismissedOrOld_SentIsOld(reminder, now) ==
  IF reminder.status \in {"dismissed", "sent"} THEN TRUE
  ELSE hoursBetween(reminder.createdAt, now) >= DefaultHoursOld

isDismissedOrOld_AgeOnly(reminder, now) ==
  hoursBetween(reminder.createdAt, now) >= DefaultHoursOld

isDismissedOrOld(reminder, now) ==
  IF reminder.status = "dismissed" THEN TRUE
  ELSE hoursBetween(reminder.createdAt, now) >= DefaultHoursOld

\* calculateDueDate(rule): now is the clock read when dueDate is constructed,
\* ticked tells whether the clock has moved on when it is read again for the
\* comparison dueDate < new Date().
\* if (dueDate < new Date()) dueDate.setFullYear(dueDate.getFullYear() + 1)
nextYearIfPast(dueDate, now, ticked) ==
  IF dueDate = NaN THEN NaN
  ELSE IF dueDate < now \/ (dueDate = now /\ ticked)
  THEN setFullYear(dueDate, getFullYear(dueDate) + 1)
  ELSE dueDate

\* Number.NaN - 1 is NaN.
minusOne(n) == IF n = NaN THEN NaN ELSE n - 1

\* const [month, day] = nums; setMonth(month - 1); setDate(day)
dueDateOf(nums, now, ticked) ==
  nextYearIfPast(setDate(setMonth(now, minusOne(Number(nums[1]))),
                         IF Len(nums) >= 2 THEN Number(nums[2]) ELSE NaN),
                 now, ticked)

calculateDueDate(rule, now, ticked) ==
  IF rule.type # "date" THEN now
  ELSE dueDateOf(split(OrDefault(rule.config, "datePattern", <<"0", "1", "-", "0", "1">>), "-"),
                 now, ticked)

\* createReminder(contact, rule) with the two clock readings of
\* calculateDueDate told apart.
createReminderAt(contact, rule, now, ticked) ==
  [contactId |-> contact.id, message |-> generateReminderMessage(contact, rule),
   dueDate |-> calculateDueDate(rule, now, ticked), status |-> "pending", rule |-> rule,
   createdAt |-> now]

\* A variant of createReminder whose reminder is born sent.
createReminder_Sent(contact, rule, now) ==
  [createReminderAt(contact, rule, now, FALSE) EXCEPT !.status = "sent"]

\* createReminder(contact, rule) inside a cycle: the cycle reads one clock value.
createReminder(contact, rule, now) == createReminderAt(contact, rule, now, FALSE)

\* context.interactions.get(contact.id) ?? []
interactionsOf(contact, context) == OrDefault(context.interactions, contact.id, <<>>)

\* A variant of the score default: a contact without a score counts as 50.
overallOf_DefaultFifty(contact, context) ==
  IF Has(context.relationshipScores, contact.id)
  THEN context.relationshipScores[contact.id].overall ELSE 50

\* (context.relationshipScores.get(contact.id) ?? { overall: 0 }).overall
overallOf(contact, context) ==
  IF Has(context.relationshipScores, contact.id)
  THEN context.relationshipScores[contact.id].overall ELSE 0

\* A variant of the cooldown check that looks under the key ruleId:contactId.
inCooldown_WrongKey(contact, rule, context, now) ==
  LET key == recentReminderKey(rule.id, contact.id)
  IN Has(context.existingReminders, key) /\ ~isDismissedOrOld(context.existingReminders[key], now)

\* The rule is skipped by the cooldown check of evaluateContact.
inCooldown(contact, rule, context, now) ==
  LET key == recentReminderKey(contact.id, rule.id)
  IN Has(context.existingReminders, key) /\ ~isDismissedOrOld(context.existingReminders[key], now)

\* The loop of evaluateContact from rule i on: threw is set when evaluateRule
\* raised, and then no list is returned.
RECURSIVE evaluateRulesFrom(_, _, _, _)
\* One pass of the loop body of evaluateContact for a rule, rest being the
\* outcome of the passes after it.
evaluateOneRule(contact, context, now, rule, rest) ==
  IF ~rule.enabled THEN rest
  ELSE IF inCooldown(contact, rule, context, now) THEN rest
  ELSE IF evaluateRuleThrows(contact, rule) THEN [threw |-> TRUE, reminders |-> <<>>]
  ELSE IF evaluateRule(contact, rule, interactionsOf(contact, context),
                       overallOf(contact, context), now)
       THEN IF rest.threw THEN rest
            ELSE [threw |-> FALSE,
                  reminders |-> <<createReminder(contact, rule, now)>> \o rest.reminders]
  ELSE rest

evaluateRulesFrom(contact, context, now, i) ==
  IF i > Len(context.rules) THEN [threw |-> FALSE, reminders |-> <<>>]
  ELSE evaluateOneRule(contact, context, now, context.rules[i],
                       evaluateRulesFrom(contact, context, now, i + 1))

evaluateContact(contact, context, now) == evaluateRulesFrom(contact, context, now, 1)

RECURSIVE evaluateContactsFrom(_, _, _)
\* newReminders.push(...reminders) for the list of one contact, rest being
\* the outcome for the contacts after it.
pushAll(one, rest) ==
  IF one.threw THEN one
  ELSE IF rest.threw THEN rest
  ELSE [threw |-> FALSE, reminders |-> one.reminders \o rest.reminders]

evaluateContactsFrom(context, now, i) ==
  IF i > Len(context.contacts) THEN [threw |-> FALSE, reminders |-> <<>>]
  ELSE pushAll(evaluateContact(context.contacts[i], context, now),
               evaluateContactsFrom(context, now, i + 1))

evaluateAllContacts(context, now) == evaluateContactsFrom(context, now, 1)

\* A variant of updateContext that keeps nothing of the old context.
updateContext_DropsOthers(context, newContext) ==
  [f \in DOMAIN context |-> IF Has(newContext, f) THEN newContext[f] ELSE <<>>]

\* { ...this.context, ...newContext }
updateContext(context, newContext) ==
  [f \in DOMAIN context |-> IF Has(newContext, f) THEN newContext[f] ELSE context[f]]

keyOf(reminder) == recentReminderKey(reminder.contactId, reminder.rule.id)

\* The sink stores the delivered reminders in the cooldown lookup, the last
\* reminder of a key winning (Map.set in list order).
recorded(existing, reminders) ==
  LET keys == {keyOf(reminders[i]) : i \in 1..Len(reminders)}
      last(k) == CHOOSE i \in 1..Len(reminders) :
                   /\ keyOf(reminders[i]) = k
                   /\ \A j \in (i + 1)..Len(reminders) : keyOf(reminders[j]) # k
  IN [k \in DOMAIN existing \cup keys |->
        IF k \in keys THEN reminders[last(k)] ELSE existing[k]]

\* ------------------------------------------- the scheduler object and host
VARIABLES
  time,           \* the host clock: the value of new Date()
  this,           \* the ReminderScheduler: context, config, intervalId, isRunning
  timers,         \* the host's armed interval timers: handle -> [callback, due]
  inflight,       \* the cycles suspended at `await callback(reminders)`
  host,           \* the host program: its first context, the callback it registers
  lastDelivered,  \* history: per key, the last reminder handed to a callback
  faulted,        \* history: some cycle has ended in its catch block
  beat,           \* history: the parity of the timer ticks, counted under FairSpec
  ev,             \* history: what the last step did
  call            \* a call of an exported function: its arguments and its result

vars == <<time, this, timers, inflight, host, lastDelivered, faulted, beat, ev, call>>

\* intervalId = null
Null == 0

\* The callbacks a host registers.  Each is an async function: `sync` is what
\* it does before its first await, `pending` whether its promise is then still
\* unsettled.
Callbacks == {"store", "slow", "stopper", "thrower"}

behaviourOf(callback) ==
  CASE callback = "store" -> [sync |-> "record", pending |-> FALSE]
    [] callback = "slow" -> [sync |-> "none", pending |-> TRUE]
    [] callback = "stopper" -> [sync |-> "stop", pending |-> FALSE]
    [] callback = "thrower" -> [sync |-> "throw", pending |-> FALSE]

\* A world is what one synchronous run of scheduler code reads and writes.
World == [this |-> this, timers |-> timers, inflight |-> inflight]

\* clearInterval(handle)
clearInterval(tm, handle) == [h \in DOMAIN tm \ {handle} |-> tm[h]]

\* setInterval(() => this.runEvaluation(callback), ms): a fresh handle.
freshHandle(tm) == CHOOSE h \in 1..(MaxTimers + 1) : h \notin DOMAIN tm /\ \A g \in 1..(h - 1) : g \in DOMAIN tm

setInterval(tm, callback, ms, now) ==
  [h \in DOMAIN tm \cup {freshHandle(tm)} |->
     IF h \in DOMAIN tm THEN tm[h] ELSE [callback |-> callback, due |-> now + ms]]

stop(w) ==
  LET cleared == IF w.this.intervalId # Null
                 THEN [w EXCEPT !.timers = clearInterval(w.timers, w.this.intervalId),
                                !.this.intervalId = Null]
                 ELSE w
  IN [cleared EXCEPT !.this.isRunning = FALSE]

isActive(sched) == sched.isRunning

\* What a cycle did, for the history variable.
NoCycle ==
  [ran |-> FALSE, active |-> FALSE, error |-> "none", invoked |-> FALSE, reminders |-> <<>>,
   sync |-> "none", suspended |-> FALSE, propagated |-> FALSE]

\* A variant of runEvaluation without the try/catch: an error leaves the cycle.
runEvaluation_NoCatch(w, callback, now) ==
  LET beh == behaviourOf(callback)
      res == evaluateAllContacts(w.this.context, now)
      ran == [NoCycle EXCEPT !.ran = TRUE, !.active = isActive(w.this)]
  IN IF res.threw
     THEN [w |-> w, cycle |-> [ran EXCEPT !.error = "evaluation", !.propagated = TRUE]]
     ELSE IF Len(res.reminders) = 0
     THEN [w |-> w, cycle |-> ran]
     ELSE LET called == [ran EXCEPT !.invoked = TRUE, !.reminders = res.reminders,
                                    !.sync = beh.sync]
              w1 == CASE beh.sync = "stop" -> stop(w)
                      [] beh.sync = "record" ->
                           [w EXCEPT !.this.context =
                              updateContext(@, [existingReminders |->
                                 recorded(@.existingReminders, res.reminders)])]
                      [] OTHER -> w
          IN IF beh.sync = "throw"
             THEN [w |-> w, cycle |-> [called EXCEPT !.error = "callback", !.propagated = TRUE]]
             ELSE IF beh.pending
             THEN [w |-> [w1 EXCEPT !.inflight =
                            Append(@, [callback |-> callback, reminders |-> res.reminders])],
                   cycle |-> [called EXCEPT !.suspended = TRUE]]
             ELSE [w |-> w1, cycle |-> called]

\* A variant in which the cycle itself records the reminders it hands over.
afterCallback_Records(w, beh, reminders) ==
  [(CASE beh.sync = "stop" -> stop(w) [] OTHER -> w) EXCEPT !.this.context =
     updateContext(@, [existingReminders |-> recorded(@.existingReminders, reminders)])]

\* The world after the synchronous part of the callback.
afterCallback(w, beh, reminders) ==
  CASE beh.sync = "stop" -> stop(w)
    [] beh.sync = "record" ->
         [w EXCEPT !.this.context =
            updateContext(@, [existingReminders |-> recorded(@.existingReminders, reminders)])]
    [] OTHER -> w

\* await callback(reminders) for a list that is not empty.
awaitCallback(w, callback, beh, reminders, called) ==
  IF beh.sync = "throw"
  THEN [w |-> w, cycle |-> [called EXCEPT !.error = "callback"]]
  ELSE IF beh.pending
  THEN [w |-> [afterCallback(w, beh, reminders) EXCEPT !.inflight =
                 Append(@, [callback |-> callback, reminders |-> reminders])],
        cycle |-> [called EXCEPT !.suspended = TRUE]]
  ELSE [w |-> afterCallback(w, beh, reminders), cycle |-> called]

\* The try block of runEvaluation once evaluateAllContacts has ended with res.
tryBlock(w, callback, beh, res, ran) ==
  IF res.threw
  THEN [w |-> w, cycle |-> [ran EXCEPT !.error = "evaluation"]]
  ELSE IF Len(res.reminders) = 0
  THEN [w |-> w, cycle |-> ran]
  ELSE awaitCallback(w, callback, beh, res.reminders,
                     [ran EXCEPT !.invoked = TRUE, !.reminders = res.reminders, !.sync = beh.sync])

\* runEvaluation(callback) up to the point where it ends or suspends at the
\* await.  Every error raised inside the try block lands in the catch block.
runEvaluation(w, callback, now) ==
  tryBlock(w, callback, behaviourOf(callback), evaluateAllContacts(w.this.context, now),
           [NoCycle EXCEPT !.ran = TRUE, !.active = isActive(w.this)])

\* Variants of start: without the isRunning guard; without the immediate cycle.
start_NoGuard(w, callback, now) ==
  LET r == runEvaluation([w EXCEPT !.this.isRunning = TRUE], callback, now)
      armed == setInterval(r.w.timers, callback, r.w.this.config.evaluationIntervalMs, now)
  IN [w |-> [r.w EXCEPT !.timers = armed, !.this.intervalId = freshHandle(r.w.timers)],
      cycle |-> r.cycle]

start_NoImmediateCycle(w, callback, now) ==
  IF w.this.isRunning THEN [w |-> w, cycle |-> NoCycle]
  ELSE LET w1 == [w EXCEPT !.this.isRunning = TRUE]
           armed == setInterval(w1.timers, callback, w1.this.config.evaluationIntervalMs, now)
       IN [w |-> [w1 EXCEPT !.timers = armed, !.this.intervalId = freshHandle(w1.timers)],
           cycle |-> NoCycle]

\* The end of start: this.intervalId = setInterval(...), after the immediate
\* cycle r.
armInterval(r, callback, now) ==
  [w |-> [r.w EXCEPT
            !.timers = setInterval(r.w.timers, callback, r.w.this.config.evaluationIntervalMs, now),
            !.this.intervalId = freshHandle(r.w.timers)],
   cycle |-> r.cycle]

start(w, callback, now) ==
  IF w.this.isRunning THEN [w |-> w, cycle |-> NoCycle]
  ELSE armInterval(runEvaluation([w EXCEPT !.this.isRunning = TRUE], callback, now), callback, now)

\* ------------------------------------------------------------ the inputs
\* 14 June, 22:00.
StartTime == 164 * HoursPerDay + 22

\* The clock moves in jumps of these many hours.
AdvanceSteps == {2, 22}

\* evaluationIntervalMs in hours; 0 stands for a period below one hour, such
\* as the default of five minutes.
Intervals == {0, 24}

Alice == [id |-> "c1", name |-> "Alice", notes |-> <<>>, tags |-> {"friend"}]
AliceSeen == [id |-> "c1", name |-> "Alice", notes |-> <<>>, tags |-> {"friend"},
              lastContactedAt |-> StartTime - 20]
\* A contact record that reached the context without its tags array.
BobBare == [id |-> "c2", name |-> "Bob", notes |-> <<>>]
BobVip == [id |-> "c2", name |-> "Bob", notes |-> <<>>, tags |-> {"vip"}]

RInactive == [id |-> "r1", type |-> "inactivity", enabled |-> TRUE, config |-> [inactivityDays |-> 1]]
RDecayVip == [id |-> "r2", type |-> "decay", enabled |-> TRUE,
              config |-> [scoreThreshold |-> 30, tags |-> <<"vip">>]]
RRecurring == [id |-> "r3", type |-> "recurring", enabled |-> TRUE,
               config |-> [recurringDays |-> 1, minRelationshipScore |-> 40]]
RDate == [id |-> "r4", type |-> "date", enabled |-> TRUE,
          config |-> [datePattern |-> <<"0", "6", "-", "1", "5">>]]
RDisabled == [id |-> "r5", type |-> "inactivity", enabled |-> FALSE, config |-> [inactivityDays |-> 1]]

\* A rule object written as a literal, not built by createRule.
RZeroDays == [id |-> "r6", type |-> "inactivity", enabled |-> TRUE, config |-> [inactivityDays |-> 0]]

EmptyMap == [k \in {} |-> 0]

Scores == [c \in {"c1", "c2"} |-> [overall |-> IF c = "c1" THEN 50 ELSE 20]]

Interactions == [c \in {"c1"} |-> <<[timestamp |-> StartTime - 30], [timestamp |-> StartTime - 22]>>]

Context(cs, rs, im, sm) ==
  [contacts |-> cs, interactions |-> im, rules |-> rs, relationshipScores |-> sm,
   existingReminders |-> EmptyMap]

\* The contexts a scheduler is constructed with.
SimpleContext == Context(<<Alice>>, <<RInactive>>, EmptyMap, EmptyMap)

FaultyContext == Context(<<Alice, BobBare>>, <<RInactive, RDecayVip>>, EmptyMap, EmptyMap)

Contexts ==
  {SimpleContext, FaultyContext,
   Context(<<AliceSeen>>, <<RDisabled, RInactive>>, Interactions, EmptyMap),
   Context(<<BobBare, Alice>>, <<RDecayVip, RInactive>>, EmptyMap, Scores),
   Context(<<AliceSeen, BobVip>>, <<RInactive, RDecayVip>>, EmptyMap, Scores),
   Context(<<AliceSeen>>, <<RRecurring, RDate>>, Interactions, Scores),
   Context(<<Alice, BobVip>>, <<RRecurring, RDate>>, EmptyMap, EmptyMap)}

\* A host: the context it constructs the scheduler with and the callback it
\* registers.  The suspending callback runs with the two smallest contexts.
Hosts ==
  {[context |-> cx, callback |-> cb] : cx \in Contexts, cb \in Callbacks \ {"slow"}}
    \cup {[context |-> cx, callback |-> "slow"] : cx \in {SimpleContext, FaultyContext}}

\* ------------------------------------------------------------- the history
\* For each reminder handed to the callback: the earlier reminder of its key
\* (prev) and the entry the cooldown lookup held for the key when the cycle
\* evaluated (seen).
deliveredInfo(reminders, context, last) ==
  {LET k == keyOf(reminders[i])
   IN [key |-> k, createdAt |-> reminders[i].createdAt,
       hasPrev |-> Has(last, k),
       prevCreatedAt |-> IF Has(last, k) THEN last[k].createdAt ELSE 0,
       prevDismissed |-> IF Has(last, k) THEN last[k].dismissed ELSE FALSE,
       hasSeen |-> Has(context.existingReminders, k),
       seenCreatedAt |-> IF Has(context.existingReminders, k)
                         THEN context.existingReminders[k].createdAt ELSE 0,
       seenStatus |-> IF Has(context.existingReminders, k)
                      THEN context.existingReminders[k].status ELSE "none"] :
   i \in 1..Len(reminders)}

noteDelivered(last, reminders) ==
  LET keys == {keyOf(reminders[i]) : i \in 1..Len(reminders)}
  IN [k \in DOMAIN last \cup keys |->
        IF k \in keys
        THEN [createdAt |-> reminders[CHOOSE i \in 1..Len(reminders) : keyOf(reminders[i]) = k].createdAt,
              dismissed |-> FALSE]
        ELSE last[k]]

\* The keys of the reminders that the contacts whose own evaluation raises
\* nothing trigger.
triggeredKeys(context, now) ==
  UNION {LET one == evaluateContact(context.contacts[i], context, now)
         IN IF one.threw THEN {} ELSE {keyOf(one.reminders[m]) : m \in 1..Len(one.reminders)} :
         i \in 1..Len(context.contacts)}

\* A step without a cycle: op is the operation, arg the callback or timer
\* handle it was called with.
Event(op, arg) ==
  [op |-> op, arg |-> arg, wasRunning |-> this.isRunning, afterFault |-> faulted,
   cycle |-> NoCycle, delivered |-> {}, expected |-> {}]

\* A step that called start or fired a timer, and the cycle it ran.
CycleEvent(op, arg, cycle) ==
  [Event(op, arg) EXCEPT
     !.cycle = [cycle EXCEPT !.reminders = <<>>],
     !.delivered = deliveredInfo(cycle.reminders, this.context, lastDelivered),
     !.expected = IF cycle.ran THEN triggeredKeys(this.context, time) ELSE {}]

\* No function has been called.
NoCall == [fn |-> "none"]

\* ----------------------------------------------------------------- actions
Init ==
  /\ time = StartTime
  /\ host \in Hosts
  /\ \E ms \in Intervals :
       this = [context |-> host.context, config |-> [evaluationIntervalMs |-> ms],
               intervalId |-> Null, isRunning |-> FALSE]
  /\ timers = EmptyMap
  /\ inflight = <<>>
  /\ lastDelivered = EmptyMap
  /\ faulted = FALSE
  /\ beat = 0
  /\ ev = [op |-> "init", arg |-> Null, wasRunning |-> FALSE, afterFault |-> FALSE,
           cycle |-> NoCycle, delivered |-> {}, expected |-> {}]
  /\ call = NoCall

\* The state after start(callback) has returned r.
Started(callback, r) ==
  /\ this' = r.w.this
  /\ timers' = r.w.timers
  /\ inflight' = r.w.inflight
  /\ lastDelivered' = noteDelivered(lastDelivered, r.cycle.reminders)
  /\ faulted' = (faulted \/ r.cycle.error # "none")
  /\ ev' = CycleEvent("start", callback, r.cycle)

\* The host calls scheduler.start(callback): with the callback it registers,
\* or with any callback while the scheduler is running.
Start(callback) ==
  /\ callback = host.callback \/ this.isRunning
  /\ ~this.isRunning => Cardinality(DOMAIN timers) < MaxTimers
  /\ behaviourOf(callback).pending => Len(inflight) < MaxInflight
  /\ Started(callback, start(World, callback, time))
  /\ UNCHANGED <<time, host, beat, call>>

\* The host calls scheduler.stop().
Stop ==
  /\ LET w == stop(World)
     IN /\ this' = w.this
        /\ timers' = w.timers
        /\ inflight' = w.inflight
  /\ ev' = Event("stop", Null)
  /\ UNCHANGED <<time, host, lastDelivered, faulted, beat, call>>

\* The state after the closure of timer h has run the cycle r.
Fired(h, r) ==
  /\ this' = r.w.this
  /\ timers' = IF h \in DOMAIN r.w.timers
               THEN [r.w.timers EXCEPT ![h].due = time + this.config.evaluationIntervalMs]
               ELSE r.w.timers
  /\ inflight' = r.w.inflight
  /\ lastDelivered' = noteDelivered(lastDelivered, r.cycle.reminders)
  /\ faulted' = (faulted \/ r.cycle.error # "none")
  /\ ev' = CycleEvent("tick", h, r.cycle)

\* An armed interval timer fires and runs its closure; the host re-arms it
\* unless the closure cleared it.
Fire(h) ==
  /\ h \in DOMAIN timers
  /\ timers[h].due <= time
  /\ behaviourOf(timers[h].callback).pending => Len(inflight) < MaxInflight
  /\ Fired(h, runEvaluation(World, timers[h].callback, time))
  /\ UNCHANGED <<time, host, call>>

TimerTick(h) == Fire(h) /\ UNCHANGED beat

\* The same step, with the parity of the ticks kept.
TimerTickCounted(h) == Fire(h) /\ beat' = 1 - beat

\* The promise of a suspended callback settles: it resolves after the callback
\* has stored its reminders in the cooldown lookup, or it rejects (the store
\* failed).  A rejection lands in the catch block of runEvaluation.
Complete(i, outcome) ==
  /\ i \in 1..Len(inflight)
  /\ this' = IF outcome = "resolve"
             THEN [this EXCEPT !.context =
                     updateContext(@, [existingReminders |->
                        recorded(@.existingReminders, inflight[i].reminders)])]
             ELSE this
  /\ inflight' = [j \in 1..(Len(inflight) - 1) |-> IF j < i THEN inflight[j] ELSE inflight[j + 1]]
  /\ faulted' = (faulted \/ outcome = "reject")
  /\ ev' = [Event("complete", inflight[i].callback) EXCEPT
              !.cycle.error = IF outcome = "reject" THEN "callback" ELSE "none"]
  /\ UNCHANGED <<time, timers, host, lastDelivered, beat, call>>

\* The reminder store changes the status of a reminder of the cooldown
\* lookup: pending to sent, pending or sent to dismissed.
SetStatus(k, status) ==
  /\ k \in DOMAIN this.context.existingReminders
  /\ \/ this.context.existingReminders[k].status = "pending" /\ status \in {"sent", "dismissed"}
     \/ this.context.existingReminders[k].status = "sent" /\ status = "dismissed"
  /\ this' = [this EXCEPT !.context =
                updateContext(@, [existingReminders |->
                   [@.existingReminders EXCEPT ![k].status = status]])]
  /\ lastDelivered' =
       IF /\ status = "dismissed"
          /\ Has(lastDelivered, k)
          /\ lastDelivered[k].createdAt = this.context.existingReminders[k].createdAt
       THEN [lastDelivered EXCEPT ![k].dismissed = TRUE]
       ELSE lastDelivered
  /\ ev' = Event("status", Null)
  /\ UNCHANGED <<time, timers, inflight, host, faulted, beat, call>>

\* Time passes; a timer with a period of hours fires at its due time.  The
\* clock is looked at on the day boundaries of StartTime and two hours later.
Advance(d) ==
  /\ time + d <= StartTime + MaxElapsed
  /\ (time + d - StartTime) % HoursPerDay \in {0, 2}
  /\ \A h \in DOMAIN timers : this.config.evaluationIntervalMs > 0 => timers[h].due >= time + d
  /\ time' = time + d
  /\ ev' = Event("advance", Null)
  /\ UNCHANGED <<this, timers, inflight, host, lastDelivered, faulted, beat, call>>

Next ==
  \/ \E cb \in Callbacks : Start(cb)
  \/ Stop
  \/ \E h \in DOMAIN timers : TimerTick(h)
  \/ \E i \in 1..Len(inflight), outcome \in {"resolve", "reject"} : Complete(i, outcome)
  \/ \E k \in DOMAIN this.context.existingReminders, status \in {"sent", "dismissed"} :
       SetStatus(k, status)
  \/ \E d \in AdvanceSteps : Advance(d)

Spec == Init /\ [][Next]_vars

\* The scheduler with a period below one hour: its armed timer fires again
\* and again, whatever else happens.
InitFair ==
  /\ Init
  /\ this.config.evaluationIntervalMs = 0
  /\ host.context \in {SimpleContext, FaultyContext}

NextFair ==
  \/ \E cb \in Callbacks : Start(cb)
  \/ Stop
  \/ \E h \in DOMAIN timers : TimerTickCounted(h)
  \/ \E i \in 1..Len(inflight), outcome \in {"resolve", "reject"} : Complete(i, outcome)
  \/ \E k \in DOMAIN this.context.existingReminders, status \in {"sent", "dismissed"} :
       SetStatus(k, status)
  \/ \E d \in AdvanceSteps : Advance(d)

FairSpec == InitFair /\ [][NextFair]_vars /\ WF_vars(\E h \in DOMAIN timers : TimerTickCounted(h))

\* The host calls scheduler.updateContext(newContext).
UpdateContext(newContext) ==
  /\ this' = [this EXCEPT !.context = updateContext(@, newContext)]
  /\ ev' = Event("update", newContext)
  /\ UNCHANGED <<time, timers, inflight, host, lastDelivered, faulted, beat, call>>

\* The partial contexts a host passes to updateContext.
Partials ==
  {[rules |-> <<RDecayVip>>],
   [rules |-> <<RInactive, RZeroDays>>],
   [contacts |-> <<AliceSeen, BobVip>>, relationshipScores |-> Scores],
   [existingReminders |-> EmptyMap]}

\* A scheduler with a period below one hour whose host also updates the
\* context.
InitUpdate ==
  /\ Init
  /\ this.config.evaluationIntervalMs = 0
  /\ host \in {[context |-> SimpleContext, callback |-> "store"],
               [context |-> SimpleContext, callback |-> "slow"]}

NextUpdate ==
  \/ Start(host.callback)
  \/ Stop
  \/ \E h \in DOMAIN timers : TimerTick(h)
  \/ \E i \in 1..Len(inflight) : Complete(i, "resolve")
  \/ \E p \in Partials : UpdateContext(p)

UpdateSpec == InitUpdate /\ [][NextUpdate]_vars

\* ------------------------------------- calls of the exported functions
\* new Date(year, month - 1, date, hours)
At(year, month, date, hours) == MakeDate(year, month - 1, date, hours)

\* The instants at which the functions are called: 31 January, 15 February,
\* 14 and 15 June, 31 December of year 1, and 15 June of year 2.
CallTimes ==
  {At(1, 1, 31, 10), At(1, 2, 15, 0), At(1, 6, 14, 22), At(1, 6, 15, 0), At(1, 6, 15, 10),
   At(1, 12, 31, 23), At(2, 6, 15, 10)}

\* A contact last contacted h hours before now.
ContactedAgo(now, h) ==
  [id |-> "c1", name |-> "Alice", notes |-> <<>>, tags |-> {"friend"}, lastContactedAt |-> now - h]

\* Ages in hours: 29 days, one hour less than 30 days, 30 days, 31 days.
InactivityAges == {29 * HoursPerDay, 30 * HoursPerDay - 1, 30 * HoursPerDay, 31 * HoursPerDay}

\* Ages in hours: 5 days, 13 days, one hour less than 14 days, 14 days, 20 days.
RecurringAges == {5 * HoursPerDay, 13 * HoursPerDay, 14 * HoursPerDay - 1, 14 * HoursPerDay, 20 * HoursPerDay}

\* Interaction lists with timestamps given as ages in hours.
InteractionLists(now) ==
  {<<>>,
   <<[timestamp |-> now - 20 * HoursPerDay], [timestamp |-> now - 14 * HoursPerDay]>>,
   <<[timestamp |-> now - 14 * HoursPerDay], [timestamp |-> now - 20 * HoursPerDay]>>,
   <<[timestamp |-> now - 13 * HoursPerDay], [timestamp |-> now - 20 * HoursPerDay],
     [timestamp |-> now - 15 * HoursPerDay]>>}

\* The values of config.datePattern.
Patterns ==
  {<<"0", "6", "-", "1", "5">>,
   <<"0", "6", "-", "1", "5", " ", "0", "9", ":", "0", "0">>,
   <<"0", "2", "-", "3", "0">>,
   <<"0", "2", "-", "1", "5">>,
   <<"1", "2", "-", "3", "1">>,
   <<"0", "1", "-", "3", "1">>,
   <<"6", "-", "1", "5">>,
   <<"1", "3", "-", "0", "1">>,
   <<"0", "0", "-", "1", "0">>,
   <<"0", "6", "-", "3", "2">>,
   <<"0", "6", "-", "0", "0">>,
   <<"0", "6">>,
   <<"0", "6", "1", "5">>,
   <<"0", "6", "-", "1", "5", "-", "0", "1">>,
   <<"0", "6", "a", "-", "1", "5">>,
   <<"a", "6", "-", "1", "5">>,
   <<"0", "6", "-", "1", "5", " ">>,
   <<>>}

\* RuleConfig objects of each use.
InactivityConfigs ==
  {EmptyMap, [inactivityDays |-> 30], [inactivityDays |-> 1], [inactivityDays |-> 0],
   [inactivityDays |-> -2], [recurringDays |-> 7]}

RecurringConfigs ==
  {EmptyMap, [recurringDays |-> 14], [recurringDays |-> 7], [recurringDays |-> 0],
   [recurringDays |-> -2], [inactivityDays |-> 7]}

DateConfigs == {EmptyMap} \cup {[datePattern |-> p] : p \in Patterns}

DecayConfigs ==
  {EmptyMap, [scoreThreshold |-> 0], [scoreThreshold |-> 30], [scoreThreshold |-> 100],
   [scoreThreshold |-> 101], [scoreThreshold |-> -2]}

ConfigsOf(type) ==
  CASE type = "inactivity" -> InactivityConfigs
    [] type = "recurring" -> RecurringConfigs
    [] type = "date" -> DateConfigs
    [] type = "decay" -> DecayConfigs

RuleTypes == {"inactivity", "recurring", "date", "decay"}

\* A rule object of a type with a config.
RuleOf(type, config) == [id |-> "r1", type |-> type, name |-> "rule", enabled |-> TRUE, config |-> config]

\* The configs of the gates of evaluateRule, added to a config of the type.
GateConfigs ==
  {EmptyMap, [tags |-> <<>>], [tags |-> <<"vip">>], [tags |-> <<"vip", "friend">>],
   [minRelationshipScore |-> 40], [minRelationshipScore |-> 0],
   [tags |-> <<"vip">>, minRelationshipScore |-> 40]}

WithGates(config, gates) ==
  [f \in DOMAIN config \cup DOMAIN gates |-> IF f \in DOMAIN gates THEN gates[f] ELSE config[f]]

GatedRules ==
  {RuleOf(type, WithGates(config, gates)) :
     type \in RuleTypes,
     config \in {[inactivityDays |-> 30], [recurringDays |-> 14],
                 [datePattern |-> <<"0", "6", "-", "1", "5">>], [scoreThreshold |-> 30]},
     gates \in GateConfigs}

\* Contacts with their tags.
Tagged(tags) == [id |-> "c1", name |-> "Alice", notes |-> <<>>, tags |-> tags]

\* The contexts of the calls of evaluateAllContacts: one contact, one rule.
SingleContexts ==
  {Context(<<c>>, <<r>>, EmptyMap, EmptyMap) :
     c \in {Tagged({"friend"}), Tagged({}), [id |-> "c2", name |-> "Bob", notes |-> <<>>, tags |-> {"vip"}],
            AliceSeen},
     r \in {RuleOf("inactivity", [inactivityDays |-> 30]), RInactive, RDisabled,
            RuleOf("inactivity", [inactivityDays |-> 30, tags |-> <<"vip">>]),
            RuleOf("inactivity", [inactivityDays |-> 30, minRelationshipScore |-> 40])}}

\* Contacts and rules whose ids hold the separator of the lookup key, and
\* contacts and rules whose ids do not.
Named(id) == [id |-> id, name |-> id, notes |-> <<>>, tags |-> {}]

RuleNamed(id) ==
  [id |-> id, type |-> "inactivity", name |-> "rule", enabled |-> TRUE,
   config |-> [inactivityDays |-> 30]]

\* The lookup the sink has filled after it delivered the reminder of contact
\* c and rule r, created at createdAt.
StoredFor(c, r, createdAt) ==
  [k \in {recentReminderKey(c.id, r.id)} |-> createReminder(c, r, createdAt)]

\* Contexts of two contacts and two rules in which the reminder of the first
\* contact and the first rule was delivered an hour or two days before now.
LookupContexts(now) ==
  {[Context(<<Named(ids[1]), Named(ids[2])>>, <<RuleNamed(ids[3]), RuleNamed(ids[4])>>,
            EmptyMap, EmptyMap)
      EXCEPT !.existingReminders = StoredFor(Named(ids[1]), RuleNamed(ids[3]), now - age)] :
     ids \in {<<"a:b", "a", "c", "b:c">>, <<"a", "b", "c", "d">>, <<"a", "a:", "c", ":c">>},
     age \in {1, 2 * HoursPerDay}}

\* Contexts of one contact without an entry in relationshipScores, with an
\* entry of overall 0, and with an entry of overall 50.
ScoreGateRules ==
  {RuleOf("decay", cf) : cf \in DecayConfigs}
  \cup {RuleOf(ty, WithGates(cf, [minRelationshipScore |-> m])) :
          ty \in {"inactivity", "decay"}, cf \in {[inactivityDays |-> 30], [scoreThreshold |-> 30]},
          m \in {0, 1, 40}}
  \cup {RuleOf("decay", [scoreThreshold |-> 30, tags |-> tg]) : tg \in {<<"vip">>, <<"friend">>}}
  \cup {[RuleOf("decay", [scoreThreshold |-> 30]) EXCEPT !.enabled = FALSE]}

UnscoredContexts ==
  {Context(<<Tagged({"friend"})>>, <<r>>, EmptyMap, sm) :
     r \in ScoreGateRules,
     sm \in {EmptyMap, [c \in {"c1"} |-> [overall |-> 0]], [c \in {"c1"} |-> [overall |-> 50]],
             [c \in {"c2"} |-> [overall |-> 50]]}}

\* A call that has not run yet.
Pending(c) == [f \in DOMAIN c \cup {"done", "result"} |->
                 IF f = "done" THEN FALSE ELSE IF f = "result" THEN Null ELSE c[f]]

Calls ==
  {Pending([fn |-> "evaluateAllContacts", context |-> cx, now |-> n]) :
     cx \in SingleContexts, n \in CallTimes}
  \cup
  {Pending([fn |-> "evaluateRule", contact |-> Tagged(tags), rule |-> r, interactions |-> <<>>,
            score |-> sc, now |-> n]) :
     tags \in {{}, {"friend"}, {"vip"}}, r \in GatedRules, sc \in {20, 40, 50},
     n \in {At(1, 6, 14, 22), At(1, 6, 15, 10)}}
  \cup
  UNION {{Pending([fn |-> "evaluateInactivityRule", contact |-> c, rule |-> RuleOf("inactivity", cf),
                   interactions |-> il, now |-> n]) :
            c \in {Tagged({"friend"})} \cup {ContactedAgo(n, h) : h \in InactivityAges},
            cf \in InactivityConfigs, il \in InteractionLists(n)} :
         n \in {At(1, 6, 14, 22), At(1, 12, 31, 23)}}
  \cup
  UNION {{Pending([fn |-> "evaluateRecurringRule", contact |-> c, rule |-> RuleOf("recurring", cf),
                   interactions |-> il, now |-> n]) :
            c \in {Tagged({"friend"})} \cup {ContactedAgo(n, h) : h \in RecurringAges},
            cf \in RecurringConfigs, il \in InteractionLists(n)} :
         n \in {At(1, 6, 14, 22)}}
  \cup
  {Pending([fn |-> "evaluateDateRule", contact |-> Tagged({}), rule |-> RuleOf("date", cf), now |-> n]) :
     cf \in DateConfigs, n \in CallTimes}
  \cup
  {Pending([fn |-> "evaluateDecayRule", contact |-> Tagged({}), rule |-> RuleOf("decay", cf),
            score |-> sc]) :
     cf \in DecayConfigs, sc \in 0..100}
  \cup
  {Pending([fn |-> "createRule", type |-> ty, name |-> "rule", config |-> cf]) :
     ty \in RuleTypes,
     cf \in InactivityConfigs \cup RecurringConfigs \cup DateConfigs \cup DecayConfigs}
  \cup
  UNION {{Pending([fn |-> "createReminder", contact |-> Tagged({}), rule |-> RuleOf(ty, cf),
                   now |-> n, ticked |-> tk]) :
            cf \in ConfigsOf(ty), n \in CallTimes, tk \in BOOLEAN} :
         ty \in RuleTypes}
  \cup
  {Pending([fn |-> "evaluateAllContacts", context |-> cx, now |-> At(1, 6, 15, 10)]) :
     cx \in LookupContexts(At(1, 6, 15, 10)) \cup UnscoredContexts}

\* The variables of the scheduler, which a call of a function leaves alone.
schedulerVars == <<time, this, timers, inflight, host, lastDelivered, faulted, beat, ev>>

Returns(fn, result) ==
  /\ call.fn = fn
  /\ ~call.done
  /\ call' = [call EXCEPT !.done = TRUE, !.result = result]
  /\ UNCHANGED schedulerVars

CallEvaluateAllContacts ==
  /\ call.fn = "evaluateAllContacts"
  /\ Returns("evaluateAllContacts", evaluateAllContacts(call.context, call.now))

CallEvaluateRule ==
  /\ call.fn = "evaluateRule"
  /\ Returns("evaluateRule",
             evaluateRule(call.contact, call.rule, call.interactions, call.score, call.now))

CallEvaluateInactivityRule ==
  /\ call.fn = "evaluateInactivityRule"
  /\ Returns("evaluateInactivityRule",
             evaluateInactivityRule(call.contact, call.rule, call.interactions, call.now))

CallEvaluateRecurringRule ==
  /\ call.fn = "evaluateRecurringRule"
  /\ Returns("evaluateRecurringRule",
             evaluateRecurringRule(call.contact, call.rule, call.interactions, call.now))

CallEvaluateDateRule ==
  /\ call.fn = "evaluateDateRule"
  /\ Returns("evaluateDateRule", evaluateDateRule(call.contact, call.rule, call.now))

CallEvaluateDecayRule ==
  /\ call.fn = "evaluateDecayRule"
  /\ Returns("evaluateDecayRule", evaluateDecayRule(call.contact, call.rule, call.score))

CallCreateRule ==
  /\ call.fn = "createRule"
  /\ Returns("createRule", createRule(call.type, call.name, call.config))

CallCreateReminder ==
  /\ call.fn = "createReminder"
  /\ Returns("createReminder", createReminderAt(call.contact, call.rule, call.now, call.ticked))

InitCalls ==
  /\ time = StartTime
  /\ host = [context |-> SimpleContext, callback |-> "store"]
  /\ this = [context |-> SimpleContext, config |-> [evaluationIntervalMs |-> 0],
             intervalId |-> Null, isRunning |-> FALSE]
  /\ timers = EmptyMap
  /\ inflight = <<>>
  /\ lastDelivered = EmptyMap
  /\ faulted = FALSE
  /\ beat = 0
  /\ ev = [op |-> "init", arg |-> Null, wasRunning |-> FALSE, afterFault |-> FALSE,
           cycle |-> NoCycle, delivered |-> {}, expected |-> {}]
  /\ call \in Calls

NextCalls ==
  \/ CallEvaluateAllContacts
  \/ CallEvaluateRule
  \/ CallEvaluateInactivityRule
  \/ CallEvaluateRecurringRule
  \/ CallEvaluateDateRule
  \/ CallEvaluateDecayRule
  \/ CallCreateRule
  \/ CallCreateReminder

\* Each exported function of the rule engine called once on each input.
CallSpec == InitCalls /\ [][NextCalls]_vars

\* ------------------------------------------- calls of the scorer and decay
\* The weights, the component scores and the factors of the calls of
\* combineScores.
Weights == {Zero, Frac(3, 10), Frac(4, 10), Whole(1), Whole(2)}

ComponentScores == {Zero, Frac(25, 2), Hundred}

Factors == {Whole(2), Frac(1, 2), Whole(10)}

WeightConfig(r, f, e) == [recencyWeight |-> r, frequencyWeight |-> f, engagementWeight |-> e]

\* The config with its three weights multiplied by factor.
scaledBy(config, factor) ==
  WeightConfig(Mul(config.recencyWeight, factor), Mul(config.frequencyWeight, factor),
               Mul(config.engagementWeight, factor))

\* The moment of the calls of the scorer.
ScoreTime == At(1, 6, 15, 10)

\* Contacts never contacted, contacted a day ahead of the clock, now, 30 and
\* 120 days ago.
ScoredContacts ==
  {Tagged({})} \cup {ContactedAgo(ScoreTime, h * HoursPerDay) : h \in {-1, 0, 30, 120}}

\* r interactions at recentAt followed by o interactions at olderAt.
InteractionsAt(r, recentAt, o, olderAt) ==
  [i \in 1..(r + o) |->
     IF i <= r THEN [timestamp |-> recentAt, quality |-> Whole(80)]
     ELSE [timestamp |-> olderAt, quality |-> Whole(35)]]

\* Lists with 0 to 7 interactions after the trend cutoff (one day ago, or one
\* hour after the cutoff) and 0 or 5 up to it (at the cutoff itself, or 100
\* days ago, outside every frequency window), and a list of one interaction
\* of full quality.
ScoredLists ==
  {InteractionsAt(r, ra, o, oa) :
     r \in {0, 3, 4, 6, 7}, o \in {0, 5},
     ra \in {ScoreTime - HoursPerDay, ScoreTime - TrendDays * HoursPerDay + 1},
     oa \in {ScoreTime - TrendDays * HoursPerDay, ScoreTime - 100 * HoursPerDay}}
  \cup {<<[timestamp |-> ScoreTime - HoursPerDay, quality |-> Hundred]>>}

ScorerConfigs ==
  {WithGates(w, WithGates(h, f)) :
     w \in {EmptyMap, WeightConfig(Whole(1), Zero, Zero), WeightConfig(Zero, Zero, Zero)},
     h \in {EmptyMap, [halfLife |-> Whole(15)], [halfLife |-> Zero], [halfLife |-> Whole(-30)]},
     f \in {EmptyMap, [frequencyWindow |-> 30], [frequencyWindow |-> 0]}}

\* The elapsed days and the parameters of the calls of the decay functions.
ElapsedDays == {Whole(-1), Frac(-1, 2), Zero, Whole(120)}

HalfLives == {Whole(-30), Zero, Whole(30), Whole(60)}

MaxAges == {Whole(-1), Zero, Whole(60), Whole(365)}

Curves == {Whole(-1), Frac(-1, 2), Zero, Frac(1, 2), Whole(1), Whole(2)}

DecayTypeConfigs ==
  {[type |-> ty] : ty \in {"exponential", "linear", "custom", "gaussian", ""}}
  \cup {[type |-> "exponential", halfLife |-> h] : h \in HalfLives}
  \cup {[type |-> "linear", maxAge |-> m] : m \in MaxAges}
  \cup {[type |-> "custom", curve |-> c] : c \in Curves}
  \cup {[type |-> "gaussian", halfLife |-> Whole(30)]}

ScoreCalls ==
  {Pending([fn |-> "combineScores", recency |-> r, frequency |-> f, engagement |-> e,
            config |-> WeightConfig(wr, wf, we), factor |-> k]) :
     r \in ComponentScores, f \in ComponentScores, e \in ComponentScores,
     wr \in Weights, wf \in Weights, we \in Weights, k \in Factors}
  \cup
  {Pending([fn |-> "calculateRelationshipScore", contact |-> c, interactions |-> il,
            config |-> cf, now |-> ScoreTime]) :
     c \in ScoredContacts, il \in ScoredLists, cf \in ScorerConfigs}
  \cup
  {Pending([fn |-> "exponentialDecay", daysSince |-> d, halfLife |-> h]) :
     d \in ElapsedDays, h \in HalfLives}
  \cup
  {Pending([fn |-> "linearDecay", daysSince |-> d, maxAge |-> m]) :
     d \in ElapsedDays, m \in MaxAges}
  \cup
  {Pending([fn |-> "powerLawDecay", daysSince |-> d, curve |-> c]) :
     d \in ElapsedDays, c \in Curves}
  \cup
  {Pending([fn |-> "applyDecay", daysSince |-> d, config |-> cf]) :
     d \in ElapsedDays, cf \in DecayTypeConfigs}

\* combineScores called with the weights as given and with the weights
\* multiplied by call.factor.
CallCombineScores ==
  /\ call.fn = "combineScores"
  /\ Returns("combineScores",
             [value |-> combineScores(call.recency, call.frequency, call.engagement, call.config),
              scaled |-> combineScores(call.recency, call.frequency, call.engagement,
                                       scaledBy(call.config, call.factor))])

CallCalculateRelationshipScore ==
  /\ call.fn = "calculateRelationshipScore"
  /\ Returns("calculateRelationshipScore",
             calculateRelationshipScore(call.contact, call.interactions, call.config, call.now))

CallExponentialDecay ==
  /\ call.fn = "exponentialDecay"
  /\ Returns("exponentialDecay", exponentialDecay(call.daysSince, call.halfLife))

CallLinearDecay ==
  /\ call.fn = "linearDecay"
  /\ Returns("linearDecay", linearDecay(call.daysSince, call.maxAge))

CallPowerLawDecay ==
  /\ call.fn = "powerLawDecay"
  /\ Returns("powerLawDecay", powerLawDecay(call.daysSince, call.curve))

CallApplyDecay ==
  /\ call.fn = "applyDecay"
  /\ Returns("applyDecay", applyDecay(call.daysSince, call.config))

InitScore ==
  /\ time = StartTime
  /\ host = [context |-> SimpleContext, callback |-> "store"]
  /\ this = [context |-> SimpleContext, config |-> [evaluationIntervalMs |-> 0],
             intervalId |-> Null, isRunning |-> FALSE]
  /\ timers = EmptyMap
  /\ inflight = <<>>
  /\ lastDelivered = EmptyMap
  /\ faulted = FALSE
  /\ beat = 0
  /\ ev = [op |-> "init", arg |-> Null, wasRunning |-> FALSE, afterFault |-> FALSE,
           cycle |-> NoCycle, delivered |-> {}, expected |-> {}]
  /\ call \in ScoreCalls

NextScore ==
  \/ CallCombineScores
  \/ CallCalculateRelationshipScore
  \/ CallExponentialDecay
  \/ CallLinearDecay
  \/ CallPowerLawDecay
  \/ CallApplyDecay

\* Each function of the scorer and of the decay module called once on each
\* input.
ScoreSpec == InitScore /\ [][NextScore]_vars

\* ---------------------------------------------------------- batchContacts
\* The number of batches after which the model stops following a loop; a
\* loop that ends makes at most MaxContacts batches.
MaxBatches == 6

MaxContacts == 4

\* An index of slice brought into 0..len: a negative index counts from the
\* end of the array, an index past an end of the array is that end.
relativeIndex(len, k) ==
  IF k < 0 THEN (IF len + k < 0 THEN 0 ELSE len + k)
  ELSE IF k > len THEN len ELSE k

\* A variant of slice that includes the element at end.
slice_EndInclusive(arr, begin, end) ==
  SubSeq(arr, relativeIndex(Len(arr), begin) + 1, relativeIndex(Len(arr), end + 1))

\* Array.prototype.slice(begin, end)
slice(arr, begin, end) ==
  SubSeq(arr, relativeIndex(Len(arr), begin) + 1, relativeIndex(Len(arr), end))

\* The lists of up to MaxContacts contacts.
ContactLists ==
  UNION {[1..n -> {Tagged({}), BobVip}] : n \in 0..MaxContacts}

\* batchContacts entered: const batches = []; let i = 0.
BatchCalls ==
  {[fn |-> "batchContacts", contacts |-> cs, batchSize |-> b, i |-> 0, batches |-> <<>>,
    done |-> FALSE, result |-> <<>>] :
     cs \in ContactLists, b \in -2..5}

\* One pass of the loop: i < contacts.length, push the slice, i += batchSize.
BatchIterate ==
  /\ call.fn = "batchContacts"
  /\ ~call.done
  /\ call.i < Len(call.contacts)
  /\ Len(call.batches) < MaxBatches
  /\ call' = [call EXCEPT
                !.batches = Append(@, slice(call.contacts, call.i, call.i + call.batchSize)),
                !.i = @ + call.batchSize]
  /\ UNCHANGED schedulerVars

\* The loop condition fails: return batches.
BatchReturn ==
  /\ call.fn = "batchContacts"
  /\ ~call.done
  /\ ~(call.i < Len(call.contacts))
  /\ call' = [call EXCEPT !.done = TRUE, !.result = call.batches]
  /\ UNCHANGED schedulerVars

InitBatch ==
  /\ time = StartTime
  /\ host = [context |-> SimpleContext, callback |-> "store"]
  /\ this = [context |-> SimpleContext, config |-> [evaluationIntervalMs |-> 0],
             intervalId |-> Null, isRunning |-> FALSE]
  /\ timers = EmptyMap
  /\ inflight = <<>>
  /\ lastDelivered = EmptyMap
  /\ faulted = FALSE
  /\ beat = 0
  /\ ev = [op |-> "init", arg |-> Null, wasRunning |-> FALSE, afterFault |-> FALSE,
           cycle |-> NoCycle, delivered |-> {}, expected |-> {}]
  /\ call \in BatchCalls

NextBatch == BatchIterate \/ BatchReturn

\* batchContacts run to its end: the thread that called it keeps running.
BatchSpec == InitBatch /\ [][NextBatch]_vars /\ WF_vars(NextBatch)

\* ------------------------------------------------------------ the claims
\* The reminders evaluateContact returns for rule j of context.rules.
remindersFor(result, rule) ==
  {m \in 1..Len(result.reminders) : result.reminders[m].rule.id = rule.id}

\* Contact i and rule j of the scheduler's context.
ContactAt(i) == this.context.contacts[i]

RuleAt(j) == this.context.rules[j]

Pairs == {<<i, j>> \in (1..Len(this.context.contacts)) \X (1..Len(this.context.rules)) : TRUE}

EntryOf(i, j) == this.context.existingReminders[recentReminderKey(ContactAt(i).id, RuleAt(j).id)]

HasEntry(i, j) == Has(this.context.existingReminders, recentReminderKey(ContactAt(i).id, RuleAt(j).id))

\* C1 as stated: two reminders of one (contactId, ruleId) that reach the
\* callback in different cycles of a running scheduler are created at least
\* 24 hours apart, unless the earlier one was dismissed in between, whatever
\* the callback does.
C1_AsStated ==
  \A d \in ev.delivered :
    (ev.wasRunning /\ d.hasPrev) =>
      (hoursBetween(d.prevCreatedAt, d.createdAt) >= DefaultHoursOld \/ d.prevDismissed)

\* C1, amended: when the cooldown lookup held the earlier reminder of the key
\* at the time the later cycle evaluated, the later reminder is created at
\* least 24 hours after it, unless the stored reminder is dismissed.
C1_CooldownWhenStored ==
  \A d \in ev.delivered :
    (d.hasPrev /\ d.hasSeen /\ d.seenCreatedAt = d.prevCreatedAt) =>
      (hoursBetween(d.prevCreatedAt, d.createdAt) >= DefaultHoursOld \/ d.seenStatus = "dismissed")

\* A timer tick hands over a reminder 24 hours or more after the stored,
\* undismissed earlier one of its key.
C1_Witness ==
  /\ ev.op = "tick"
  /\ \E d \in ev.delivered :
       /\ d.hasPrev /\ d.hasSeen /\ d.seenCreatedAt = d.prevCreatedAt
       /\ d.seenStatus # "dismissed"
       /\ hoursBetween(d.prevCreatedAt, d.createdAt) >= DefaultHoursOld

\* C2 as stated: an enabled rule whose key holds a reminder that is not
\* dismissed and not older than 24 hours (its age is at most 24 hours) yields
\* no reminder from evaluateContact.
C2_AsStated ==
  \A p \in Pairs :
    LET result == evaluateContact(ContactAt(p[1]), this.context, time)
    IN (/\ RuleAt(p[2]).enabled
        /\ HasEntry(p[1], p[2])
        /\ EntryOf(p[1], p[2]).status # "dismissed"
        /\ hoursBetween(EntryOf(p[1], p[2]).createdAt, time) <= DefaultHoursOld)
         => remindersFor(result, RuleAt(p[2])) = {}

\* C2, amended: an enabled rule whose key holds a reminder that is not
\* dismissed and younger than 24 hours yields no reminder from
\* evaluateContact, whatever its gates and predicate return.
C2_SuppressedInCooldown ==
  \A p \in Pairs :
    LET result == evaluateContact(ContactAt(p[1]), this.context, time)
    IN (/\ RuleAt(p[2]).enabled
        /\ HasEntry(p[1], p[2])
        /\ EntryOf(p[1], p[2]).status # "dismissed"
        /\ hoursBetween(EntryOf(p[1], p[2]).createdAt, time) < DefaultHoursOld)
         => remindersFor(result, RuleAt(p[2])) = {}

\* A cycle has run on a context in which a rule that triggers is held back
\* by a stored reminder of 22 hours.
C2_Witness ==
  /\ ev.op = "tick"
  /\ ev.cycle.ran
  /\ \E p \in Pairs :
       /\ RuleAt(p[2]).enabled
       /\ HasEntry(p[1], p[2])
       /\ EntryOf(p[1], p[2]).status = "sent"
       /\ hoursBetween(EntryOf(p[1], p[2]).createdAt, time) = 22
       /\ evaluateRule(ContactAt(p[1]), RuleAt(p[2]), interactionsOf(ContactAt(p[1]), this.context),
                       overallOf(ContactAt(p[1]), this.context), time)
       /\ \A d \in ev.delivered : d.key # recentReminderKey(ContactAt(p[1]).id, RuleAt(p[2]).id)

\* C3: when evaluateContact returns, an enabled rule whose gates and
\* predicate hold and whose stored reminder is dismissed or 24 hours old
\* yields a reminder for the contact; a stored pending or sent reminder that
\* is 2 hours old yields none.
C3_RefiresAfterCooldown ==
  \A p \in Pairs :
    LET contact == ContactAt(p[1])
        rule == RuleAt(p[2])
        result == evaluateContact(contact, this.context, time)
    IN (rule.enabled /\ HasEntry(p[1], p[2])) =>
         /\ (/\ ~result.threw
             /\ \/ EntryOf(p[1], p[2]).status = "dismissed"
                \/ hoursBetween(EntryOf(p[1], p[2]).createdAt, time) >= DefaultHoursOld
             /\ ~evaluateRuleThrows(contact, rule)
             /\ evaluateRule(contact, rule, interactionsOf(contact, this.context),
                             overallOf(contact, this.context), time))
              => \E m \in remindersFor(result, rule) :
                   /\ result.reminders[m].contactId = contact.id
                   /\ result.reminders[m].createdAt = time
         /\ (/\ EntryOf(p[1], p[2]).status \in {"pending", "sent"}
             /\ hoursBetween(EntryOf(p[1], p[2]).createdAt, time) = 2)
              => remindersFor(result, rule) = {}

\* A cycle hands over a reminder whose stored predecessor is dismissed and
\* only 2 hours old.
C3_Witness ==
  \E d \in ev.delivered :
    /\ d.hasSeen
    /\ d.seenStatus = "dismissed"
    /\ hoursBetween(d.seenCreatedAt, d.createdAt) = 2

\* C4: start(callback) on a running scheduler changes nothing: no cycle, no
\* second timer, the running flag, the armed timer and its callback as before.
C4_StartWhileRunningIsNoOp ==
  [][(ev'.op = "start" /\ isActive(this)) =>
       /\ UNCHANGED <<time, this, timers, inflight, lastDelivered, faulted>>
       /\ ~ev'.cycle.ran]_vars

\* start was called on a running scheduler with another callback than the
\* one of the armed timer.
C4_Witness ==
  /\ ev.op = "start"
  /\ ev.wasRunning
  /\ this.intervalId \in DOMAIN timers
  /\ timers[this.intervalId].callback # ev.arg

\* C5: start(callback) on an idle scheduler sets the running flag, runs one
\* cycle at once with the flag set, and arms a timer of period
\* evaluationIntervalMs for the callback; the scheduler is then running unless
\* the callback itself called stop().  Every tick of an armed timer runs one
\* cycle and the timer is due again one period later; a running scheduler has
\* its timer armed.
C5_StartRunsCycleThenTicks ==
  /\ (ev.op = "start" /\ ~ev.wasRunning) =>
       /\ ev.cycle.ran
       /\ ev.cycle.active
       /\ ev.cycle.sync # "stop" => isActive(this)
       /\ this.intervalId \in DOMAIN timers
       /\ timers[this.intervalId] =
            [callback |-> ev.arg, due |-> time + this.config.evaluationIntervalMs]
  /\ ev.op = "tick" =>
       /\ ev.cycle.ran
       /\ ev.arg \in DOMAIN timers => timers[ev.arg].due = time + this.config.evaluationIntervalMs
  /\ isActive(this) => this.intervalId \in DOMAIN timers

\* A timer of period 24 hours ticks 24 hours after start.
C5_Witness ==
  /\ ev.op = "tick"
  /\ ev.wasRunning
  /\ ev.cycle.ran
  /\ this.config.evaluationIntervalMs = 24
  /\ time = StartTime + 24

\* C6 as stated: stop() leaves the scheduler idle and the cycles in flight
\* alone, and no timer tick starts a cycle while the scheduler is idle, also
\* when stop() was called from inside the callback.
C6_AsStated ==
  [][/\ ev'.op = "stop" => (~isActive(this') /\ inflight' = inflight)
     /\ (ev'.op = "tick" /\ ev'.cycle.ran) => isActive(this)]_vars

\* C7: an error raised by the evaluation or by the callback ends in the catch
\* block: it does not propagate, a running scheduler stays running with its
\* timer armed, the timer that ticked is due again one period later, and every
\* later tick runs a cycle.
C7_ErrorsAreCaught ==
  /\ ev.cycle.error # "none" =>
       /\ ~ev.cycle.propagated
       /\ (ev.wasRunning \/ ev.op = "start") =>
            (isActive(this) /\ this.intervalId \in DOMAIN timers)
       /\ ev.op = "tick" =>
            /\ ev.arg \in DOMAIN timers
            /\ timers[ev.arg].due = time + this.config.evaluationIntervalMs
  /\ (ev.op = "tick" /\ ev.afterFault) => ev.cycle.ran

\* A tick of a running scheduler runs a cycle after an earlier cycle ended in
\* the catch block.
C7_Witness ==
  /\ ev.op = "tick"
  /\ ev.afterFault
  /\ ev.wasRunning
  /\ ev.cycle.ran
  /\ isActive(this)

\* C8 as stated: a cycle hands to the callback every reminder triggered for a
\* contact whose own evaluation raises nothing, also when the evaluation of
\* another contact of the context raises an error.
C8_AsStated ==
  ev.cycle.ran => ev.expected \subseteq {d.key : d \in ev.delivered}

\* The rule j of contact i triggers and no cooldown entry holds it back.
Triggering(i, j) ==
  /\ i <= Len(this.context.contacts)
  /\ j <= Len(this.context.rules)
  /\ RuleAt(j).enabled
  /\ ~inCooldown(ContactAt(i), RuleAt(j), this.context, time)
  /\ ~evaluateRuleThrows(ContactAt(i), RuleAt(j))
  /\ evaluateRule(ContactAt(i), RuleAt(j), interactionsOf(ContactAt(i), this.context),
                  overallOf(ContactAt(i), this.context), time)

Reminded(i, j) ==
  Has(lastDelivered, recentReminderKey(ContactAt(i).id, RuleAt(j).id))

EventuallyReminded(i, j) ==
  (isActive(this) /\ Triggering(i, j))
    ~> (~isActive(this) \/ ~Triggering(i, j) \/ Reminded(i, j))

\* C9 as stated: while the scheduler keeps running and the rule of a contact
\* keeps triggering with no cooldown entry, a reminder for the pair reaches
\* the callback in the end, also when another contact's evaluation raises an
\* error.
C9_AsStated ==
  /\ EventuallyReminded(1, 1)
  /\ EventuallyReminded(1, 2)
  /\ EventuallyReminded(2, 1)
  /\ EventuallyReminded(2, 2)

\* C10 as stated: at most one cycle is in flight at any time.
C10_AsStated == Len(inflight) <= 1

\* The keys of a list of reminders.
keysOf(reminders) == {keyOf(reminders[i]) : i \in 1..Len(reminders)}

\* C11: updateContext(partial) replaces the fields of the context that
\* partial holds and keeps the others, changes nothing else of the scheduler
\* and leaves the list of every cycle in flight as it was; a cycle that starts
\* hands over (and, when its callback suspends, keeps in flight) the list
\* computed from the one context the scheduler holds when it starts.
C11_UpdateContextMerges ==
  [][/\ ev'.op = "update" =>
          /\ DOMAIN this'.context = DOMAIN this.context
          /\ \A f \in DOMAIN this.context :
               this'.context[f] = IF f \in DOMAIN ev'.arg THEN ev'.arg[f] ELSE this.context[f]
          /\ [this' EXCEPT !.context = this.context] = this
          /\ inflight' = inflight
     /\ (ev'.op \in {"start", "tick"} /\ ev'.cycle.invoked) =>
          LET res == evaluateAllContacts(this.context, time)
          IN /\ ~res.threw
             /\ {d.key : d \in ev'.delivered} = keysOf(res.reminders)
             /\ ev'.cycle.suspended => inflight'[Len(inflight')].reminders = res.reminders]_vars

\* updateContext was called while a cycle is in flight whose list the new
\* context would not produce.
C11_Witness ==
  /\ ev.op = "update"
  /\ Len(inflight) > 0
  /\ ~(keysOf(inflight[1].reminders) \subseteq triggeredKeys(this.context, time))

\* C12: evaluateAllContacts on a context of one contact never contacted, one
\* enabled inactivity rule of 30 days without tag filter and score gate, and
\* no existing reminders returns exactly one reminder: of that contact, with
\* status pending, carrying the rule, its message the inactivity template,
\* which mentions "haven't connected", filled with the contact's name and 30.
C12_OneInactivityReminder ==
  (/\ call.fn = "evaluateAllContacts"
   /\ call.done
   /\ Len(call.context.contacts) = 1
   /\ ~Has(call.context.contacts[1], "lastContactedAt")
   /\ call.context.rules = <<RuleOf("inactivity", [inactivityDays |-> 30])>>
   /\ DOMAIN call.context.existingReminders = {})
    => /\ ~call.result.threw
       /\ Len(call.result.reminders) = 1
       /\ call.result.reminders[1].contactId = call.context.contacts[1].id
       /\ call.result.reminders[1].status = "pending"
       /\ call.result.reminders[1].rule = call.context.rules[1]
       /\ call.result.reminders[1].message.strings =
            <<"Time to reach out to ", "! You haven't connected in ", " days.">>
       /\ call.result.reminders[1].message.values = <<call.context.contacts[1].name, 30>>

\* evaluateAllContacts has returned for such a context.
C12_Witness ==
  /\ call.fn = "evaluateAllContacts"
  /\ call.done
  /\ call.context.contacts = <<Tagged({"friend"})>>
  /\ call.context.rules = <<RuleOf("inactivity", [inactivityDays |-> 30])>>
  /\ Len(call.result.reminders) = 1

\* The type-specific predicate of a rule.
typePredicate(contact, rule, interactions, score, now) ==
  CASE rule.type = "inactivity" -> evaluateInactivityRule(contact, rule, interactions, now)
    [] rule.type = "recurring" -> evaluateRecurringRule(contact, rule, interactions, now)
    [] rule.type = "date" -> evaluateDateRule(contact, rule, now)
    [] rule.type = "decay" -> evaluateDecayRule(contact, rule, score)

\* The tag filter of the call's rule is not empty and the contact has none
\* of its tags.
TagsExclude ==
  /\ Has(call.rule.config, "tags")
  /\ Len(call.rule.config.tags) > 0
  /\ \A i \in 1..Len(call.rule.config.tags) : call.rule.config.tags[i] \notin call.contact.tags

\* The score of the call is below the minRelationshipScore of its rule.
ScoreExcludes ==
  Has(call.rule.config, "minRelationshipScore") /\ call.score < call.rule.config.minRelationshipScore

\* C13: evaluateRule returns false for a contact with none of the tags of a
\* non-empty tag filter, returns false for a score below minRelationshipScore,
\* and otherwise returns what the predicate of the rule's type returns.
C13_GatesBeforeDispatch ==
  (call.fn = "evaluateRule" /\ call.done) =>
    /\ TagsExclude => call.result = FALSE
    /\ ScoreExcludes => call.result = FALSE
    /\ (~TagsExclude /\ ~ScoreExcludes) =>
         call.result = typePredicate(call.contact, call.rule, call.interactions, call.score, call.now)

\* evaluateRule has returned false by the score gate alone, for a rule whose
\* tag filter matches and whose predicate holds.
C13_Witness ==
  /\ call.fn = "evaluateRule"
  /\ call.done
  /\ Has(call.rule.config, "tags")
  /\ ~TagsExclude
  /\ ScoreExcludes
  /\ typePredicate(call.contact, call.rule, call.interactions, call.score, call.now)
  /\ call.result = FALSE

LatestTimestamp ==
  CHOOSE t \in {call.interactions[i].timestamp : i \in 1..Len(call.interactions)} :
    \A i \in 1..Len(call.interactions) : call.interactions[i].timestamp <= t

IsMonthDay(p) ==
  /\ Len(p) >= 5
  /\ IsDigit(p[1]) /\ IsDigit(p[2]) /\ p[3] = "-" /\ IsDigit(p[4]) /\ IsDigit(p[5])
  /\ Len(p) > 5 => p[6] = " "

MonthOf(p) == 10 * DigitValue(p[1]) + DigitValue(p[2])

DayOf(p) == 10 * DigitValue(p[4]) + DigitValue(p[5])

\* C16: evaluateDateRule returns false without a pattern; for a pattern with
\* an MM-DD prefix it returns true exactly when today's month and day are
\* those of the prefix, in any year and whatever follows the prefix; a
\* pattern of a day that no calendar has, as 02-30, never triggers.
C16_DateRule ==
  (call.fn = "evaluateDateRule" /\ call.done) =>
    /\ ~Has(call.rule.config, "datePattern") => call.result = FALSE
    /\ (Has(call.rule.config, "datePattern") /\ IsMonthDay(call.rule.config.datePattern)) =>
         /\ call.result = (/\ getMonth(call.now) + 1 = MonthOf(call.rule.config.datePattern)
                           /\ getDate(call.now) = DayOf(call.rule.config.datePattern))
         /\ (MonthOf(call.rule.config.datePattern) = 2 /\ DayOf(call.rule.config.datePattern) = 30)
              => call.result = FALSE

\* A pattern with a time after the date triggers on 15 June of year 2.
C16_Witness ==
  /\ call.fn = "evaluateDateRule"
  /\ call.done
  /\ Has(call.rule.config, "datePattern")
  /\ Len(call.rule.config.datePattern) > 5
  /\ IsMonthDay(call.rule.config.datePattern)
  /\ getFullYear(call.now) = 2
  /\ call.result = TRUE

\* C17: evaluateDecayRule returns true exactly when the score is below
\* scoreThreshold (30 when unset); with a threshold of 0 no score of 0..100
\* triggers.
C17_DecayRule ==
  (call.fn = "evaluateDecayRule" /\ call.done) =>
    LET threshold == IF Has(call.rule.config, "scoreThreshold") THEN call.rule.config.scoreThreshold ELSE 30
    IN /\ call.result = (call.score < threshold)
       /\ threshold = 0 => call.result = FALSE

\* A score of 30 does not trigger a threshold of 30.
C17_Witness ==
  /\ call.fn = "evaluateDecayRule"
  /\ call.done
  /\ call.rule.config = [scoreThreshold |-> 30]
  /\ call.score = 30
  /\ call.result = FALSE

\* The config of the call is invalid for its type, as the claim lists it.
ListedInvalid ==
  CASE call.type = "inactivity" ->
         ~Has(call.config, "inactivityDays") \/ call.config.inactivityDays <= 0
    [] call.type = "recurring" ->
         ~Has(call.config, "recurringDays") \/ call.config.recurringDays <= 0
    [] call.type = "date" ->
         \/ ~Has(call.config, "datePattern")
         \/ /\ IsMonthDay(call.config.datePattern)
            /\ \/ MonthOf(call.config.datePattern) \notin 1..12
               \/ DayOf(call.config.datePattern) \notin 1..31
    [] call.type = "decay" ->
         \/ ~Has(call.config, "scoreThreshold")
         \/ call.config.scoreThreshold < 0
         \/ call.config.scoreThreshold > 100

\* The config of the call is valid for its type.
ListedValid ==
  CASE call.type = "inactivity" ->
         Has(call.config, "inactivityDays") /\ call.config.inactivityDays > 0
    [] call.type = "recurring" ->
         Has(call.config, "recurringDays") /\ call.config.recurringDays > 0
    [] call.type = "date" ->
         /\ Has(call.config, "datePattern")
         /\ IsMonthDay(call.config.datePattern)
         /\ MonthOf(call.config.datePattern) \in 1..12
         /\ DayOf(call.config.datePattern) \in 1..31
    [] call.type = "decay" ->
         /\ Has(call.config, "scoreThreshold")
         /\ call.config.scoreThreshold >= 0
         /\ call.config.scoreThreshold <= 100

\* C18: createRule throws and returns no rule for a config that is invalid
\* for the type; for a valid config it returns an enabled rule of the type
\* with the config as given.
C18_CreateRuleValidates ==
  (call.fn = "createRule" /\ call.done) =>
    /\ ListedInvalid => (call.result.threw /\ ~Has(call.result, "rule"))
    /\ ListedValid =>
         /\ ~call.result.threw
         /\ call.result.rule.enabled
         /\ call.result.rule.type = call.type
         /\ call.result.rule.config = call.config

\* createRule has returned a rule for a boundary value: a scoreThreshold of
\* 0, or the pattern 02-30.
C18_Witness ==
  /\ call.fn = "createRule"
  /\ call.done
  /\ ~call.result.threw
  /\ \/ call.type = "decay" /\ call.config = [scoreThreshold |-> 0]
     \/ /\ call.type = "date"
        /\ Has(call.config, "datePattern")
        /\ IsMonthDay(call.config.datePattern)
        /\ MonthOf(call.config.datePattern) = 2
        /\ DayOf(call.config.datePattern) = 30

\* C19 as stated: every rule of the scheduler's context whose predicate a
\* cycle invoked, here one for which the cycle handed over a reminder, has a
\* config that createRule accepts for its type.
C19_AsStated ==
  \A p \in Pairs :
    (\E d \in ev.delivered : d.key = recentReminderKey(ContactAt(p[1]).id, RuleAt(p[2]).id))
      => ~createRuleThrows(RuleAt(p[2]).type, RuleAt(p[2]).config)

\* The day of the pattern of the call lies before the day of the call in
\* the year.
PatternDayPassed ==
  \/ MonthOf(call.rule.config.datePattern) < getMonth(call.now) + 1
  \/ /\ MonthOf(call.rule.config.datePattern) = getMonth(call.now) + 1
     /\ DayOf(call.rule.config.datePattern) < getDate(call.now)

\* C20 as stated: the dueDate of a reminder of a date rule has the month and
\* day of the pattern, in the current year when that day has not passed
\* today, on the pattern's own day included, and in the next year otherwise;
\* the dueDate of a reminder of another rule is the creation time.
C20_AsStated ==
  (call.fn = "createReminder" /\ call.done) =>
    IF call.rule.type # "date" THEN call.result.dueDate = call.result.createdAt
    ELSE (/\ Has(call.rule.config, "datePattern")
          /\ IsMonthDay(call.rule.config.datePattern)
          /\ isValidDatePattern(call.rule.config.datePattern)) =>
           /\ call.result.dueDate # NaN
           /\ getMonth(call.result.dueDate) + 1 = MonthOf(call.rule.config.datePattern)
           /\ getDate(call.result.dueDate) = DayOf(call.rule.config.datePattern)
           /\ getFullYear(call.result.dueDate) =
                IF PatternDayPassed THEN getFullYear(call.now) + 1 ELSE getFullYear(call.now)

\* A number in [0,100].
InRange(x) == LessEq(Zero, x) /\ LessEq(x, Hundred)

\* C21 as stated: for any three weights and component scores in [0,100],
\* combineScores returns a value in [0,100], and the same value when the
\* three weights are multiplied by one factor.
C21_AsStated ==
  (call.fn = "combineScores" /\ call.done) =>
    /\ InRange(call.result.value)
    /\ call.result.scaled = call.result.value

\* The part of C21 that the code keeps: weights whose sum is not zero.
C21_WhenSumIsNotZero ==
  (/\ call.fn = "combineScores" /\ call.done
   /\ Add(Add(call.config.recencyWeight, call.config.frequencyWeight),
          call.config.engagementWeight) # Zero) =>
    /\ InRange(call.result.value)
    /\ call.result.scaled = call.result.value

\* The call of calculateRelationshipScore has returned a score.
Scored == call.fn = "calculateRelationshipScore" /\ call.done /\ ~call.result.threw

\* The frequency window of the call, in days.
WindowOfCall == OrDefault(call.config, "frequencyWindow", 90)

\* No interaction of the call is later than the start of the frequency window.
NoneInWindow ==
  \A i \in 1..Len(call.interactions) :
    call.interactions[i].timestamp <= call.now - WindowOfCall * HoursPerDay

\* The component scores of a returned score are in [0,100], and 0 in the
\* three cases of C22.
ComponentsAsStated ==
  Scored =>
    /\ InRange(call.result.value.recency)
    /\ InRange(call.result.value.frequency)
    /\ InRange(call.result.value.engagement)
    /\ ~Has(call.contact, "lastContactedAt") => call.result.value.recency = Zero
    /\ NoneInWindow => call.result.value.frequency = Zero
    /\ Len(call.interactions) = 0 => call.result.value.engagement = Zero

\* C22 as stated: every score calculateRelationshipScore returns has overall,
\* recency, frequency and engagement in [0,100] for every contact, list and
\* configuration; recency is 0 without lastContactedAt, frequency is 0 when no
\* interaction is in the frequency window, engagement is 0 without
\* interactions.
C22_AsStated ==
  /\ ComponentsAsStated
  /\ Scored => InRange(call.result.value.overall)

\* The numbers of interactions of the call after, and up to, the instant 45
\* days before the call.
RecentCount ==
  Cardinality({i \in 1..Len(call.interactions) :
                 call.interactions[i].timestamp > call.now - TrendDays * HoursPerDay})

OlderCount ==
  Cardinality({i \in 1..Len(call.interactions) :
                 call.interactions[i].timestamp <= call.now - TrendDays * HoursPerDay})

InvalidDecayParameter ==
  \/ call.fn = "exponentialDecay" /\ LessEq(call.halfLife, Zero)
  \/ call.fn = "linearDecay" /\ LessEq(call.maxAge, Zero)
  \/ call.fn = "powerLawDecay" /\ LessEq(call.curve, Zero)
  \/ call.fn = "applyDecay" /\ call.config.type \notin {"exponential", "linear", "custom"}

\* C24 as stated: for every elapsed time, exponentialDecay fails when
\* halfLife <= 0, linearDecay when maxAge <= 0, powerLawDecay when curve <= 0,
\* applyDecay for a type other than exponential, linear and custom; none
\* returns a score.
C24_AsStated ==
  (call.done /\ InvalidDecayParameter) => call.result.threw

\* What the code does with an invalid parameter: it fails when the elapsed
\* time is positive (for linearDecay and powerLawDecay also when it is 0, for
\* applyDecay with an unknown type always), and returns 100 otherwise.
DecayAsCoded ==
  (call.done /\ InvalidDecayParameter) =>
    IF \/ call.fn = "applyDecay"
       \/ Less(Zero, call.daysSince)
       \/ call.fn \in {"linearDecay", "powerLawDecay"} /\ call.daysSince = Zero
    THEN call.result.threw
    ELSE call.result = Returned(Hundred)

\* The concatenation of the batches from the k-th on.
RECURSIVE flatFrom(_, _)
flatFrom(batches, k) ==
  IF k > Len(batches) THEN <<>> ELSE batches[k] \o flatFrom(batches, k + 1)

\* C25: batchContacts with batchSize >= 1 returns consecutive chunks: their
\* concatenation is the input list, every batch but the last has batchSize
\* contacts, the last has between 1 and batchSize, and the empty list gives
\* no batch.
C25_BatchesPartition ==
  (call.fn = "batchContacts" /\ call.done /\ call.batchSize >= 1) =>
    /\ flatFrom(call.result, 1) = call.contacts
    /\ \A k \in 1..Len(call.result) :
         /\ k < Len(call.result) => Len(call.result[k]) = call.batchSize
         /\ Len(call.result[k]) \in 1..call.batchSize
    /\ Len(call.contacts) = 0 => call.result = <<>>

\* Four contacts in batches of three: a batch of three and a batch of one.
C25_Witness ==
  /\ call.fn = "batchContacts" /\ call.done
  /\ call.batchSize = 3
  /\ Len(call.contacts) = 4
  /\ Len(call.result) = 2
  /\ Len(call.result[2]) = 1

LoopNeverEnds ==
  (call.fn = "batchContacts" /\ call.batchSize <= 0 /\ Len(call.contacts) > 0) =>
    /\ call.i <= 0
    /\ call.i < Len(call.contacts)
    /\ ~call.done

\* With batchSize >= 1, or an empty list, the loop has ended when it has made
\* as many batches as there are contacts.
LoopEnds ==
  (/\ call.fn = "batchContacts"
   /\ call.batchSize >= 1 \/ Len(call.contacts) = 0
   /\ ~call.done) =>
    /\ Len(call.batches) <= Len(call.contacts)
    /\ Len(call.batches) = Len(call.contacts) => ~(call.i < Len(call.contacts))

\* The pairs (contact id, rule id) of the context of the call.
PairsOfCall ==
  {<<call.context.contacts[i].id, call.context.rules[j].id>> :
     i \in 1..Len(call.context.contacts), j \in 1..Len(call.context.rules)}

\* The lookup of the call holds a reminder of contact c and rule r that is
\* neither dismissed nor old.
RecentOwnReminder(c, r) ==
  \E k \in DOMAIN call.context.existingReminders :
    /\ call.context.existingReminders[k].contactId = c.id
    /\ call.context.existingReminders[k].rule.id = r.id
    /\ ~isDismissedOrOld(call.context.existingReminders[k], call.now)

\* No two pairs of the call have one key, and every rule that triggers for a
\* contact without a recent reminder of their own is in the returned list.
NoCrossSuppression ==
  /\ \A p \in PairsOfCall, q \in PairsOfCall :
       p # q => recentReminderKey(p[1], p[2]) # recentReminderKey(q[1], q[2])
  /\ \A i \in 1..Len(call.context.contacts), j \in 1..Len(call.context.rules) :
       (/\ call.context.rules[j].enabled
        /\ evaluateRule(call.context.contacts[i], call.context.rules[j],
                        interactionsOf(call.context.contacts[i], call.context),
                        overallOf(call.context.contacts[i], call.context), call.now)
        /\ ~RecentOwnReminder(call.context.contacts[i], call.context.rules[j]))
       => \E m \in 1..Len(call.result.reminders) :
            /\ call.result.reminders[m].contactId = call.context.contacts[i].id
            /\ call.result.reminders[m].rule.id = call.context.rules[j].id

\* The call evaluates a context with existing reminders and has returned.
LookupCallDone ==
  /\ call.fn = "evaluateAllContacts"
  /\ call.done
  /\ ~call.result.threw
  /\ DOMAIN call.context.existingReminders # {}

\* C26 as stated: two different (contactId, ruleId) pairs never have the same
\* key of existingReminders, so a recent reminder recorded for one pair never
\* suppresses another pair.
C26_AsStated == LookupCallDone => NoCrossSuppression

\* The same for ids that do not hold the separator ':'.
NoCrossSuppressionOfPlainIds ==
  (LookupCallDone /\ PairsOfCall = {"a", "b"} \X {"c", "d"}) => NoCrossSuppression

\* C27 as stated: whenever no start() or stop() call is executing, a
\* repeating timer is armed if and only if isActive() is true, at most one
\* timer is armed, and an armed timer is the one the scheduler holds the
\* handle of.
C27_AsStated ==
  /\ Cardinality(DOMAIN timers) <= 1
  /\ DOMAIN timers # {} <=> isActive(this)
  /\ DOMAIN timers # {} => this.intervalId \in DOMAIN timers

\* The same for a scheduler whose callbacks never call stop().
TimerMatchesActive ==
  (\A h \in DOMAIN timers : behaviourOf(timers[h].callback).sync # "stop")
  /\ behaviourOf(host.callback).sync # "stop"
    => C27_AsStated

\* C29: a scheduler cycle (the one of start() and the one of a timer tick)
\* leaves contacts, interactions, rules and relationshipScores of the context
\* as they were, and existingReminders too unless the callback it awaits
\* writes the lookup: the cycle does not record the reminders it emits.  A
\* call of evaluateAllContacts leaves its context argument as it was.
C29_CycleOnlyReads ==
  [][/\ ev'.op \in {"start", "tick"} =>
          /\ \A f \in DOMAIN this.context \ {"existingReminders"} :
               this'.context[f] = this.context[f]
          /\ ev'.cycle.sync # "record" => this'.context = this.context
     /\ call.fn = "evaluateAllContacts" => call'.context = call.context]_vars

\* A tick has handed reminders to a callback that does not write the lookup:
\* none of them is in existingReminders.
C29_Witness ==
  /\ ev.op = "tick"
  /\ ev.cycle.invoked
  /\ ev.delivered # {}
  /\ ev.cycle.sync # "record"
  /\ \A d \in ev.delivered : d.key \notin DOMAIN this.context.existingReminders

\* The call evaluates one contact that has no entry in relationshipScores,
\* against one rule, and has returned.
UnscoredCallDone ==
  /\ call.fn = "evaluateAllContacts"
  /\ call.done
  /\ Len(call.context.contacts) = 1
  /\ Len(call.context.rules) = 1
  /\ ~Has(call.context.relationshipScores, call.context.contacts[1].id)
  /\ DOMAIN call.context.existingReminders = {}

\* The context of the call with the contact's score entered as overall 0.
WithScoreZero ==
  [call.context EXCEPT !.relationshipScores =
     [c \in {call.context.contacts[1].id} |-> [overall |-> 0]]]

\* C30: for a contact without an entry in relationshipScores every rule is
\* evaluated as if the overall score were 0: the result is the one for the
\* context that holds the score 0, an enabled decay rule with scoreThreshold
\* > 0 that passes the tag filter and has no minimum score above 0 triggers,
\* and a rule with minRelationshipScore > 0 does not trigger.
C30_MissingScoreIsZero ==
  UnscoredCallDone =>
    /\ call.result = evaluateAllContacts(WithScoreZero, call.now)
    /\ (/\ call.context.rules[1].type = "decay"
        /\ call.context.rules[1].enabled
        /\ OrDefault(call.context.rules[1].config, "scoreThreshold", DefaultScoreThreshold) > 0
        /\ ruleAppliesToContact(call.context.contacts[1], call.context.rules[1])
        /\ OrDefault(call.context.rules[1].config, "minRelationshipScore", 0) <= 0)
       => Len(call.result.reminders) = 1
    /\ OrDefault(call.context.rules[1].config, "minRelationshipScore", 0) > 0
       => Len(call.result.reminders) = 0

\* A decay rule with threshold 30 has triggered for a contact without a score
\* while the context holds the score 50 of another contact.
C30_Witness ==
  /\ UnscoredCallDone
  /\ call.context.rules[1] = RuleOf("decay", [scoreThreshold |-> 30])
  /\ DOMAIN call.context.relationshipScores = {"c2"}
  /\ Len(call.result.reminders) = 1

====
